---------------------------- MODULE Spec2Model ----------------------------
(***************************************************************************)
(* Model of the Azure cost monitoring function:                            *)
(*   src/TimerFunction/__init__.py  (main and the analysis functions)      *)
(*   src/postgres_helper.py         (PostgresHelper and its inserts)       *)
(*                                                                         *)
(* Spec      : one invocation of main() against the PostgreSQL database.   *)
(* SpecRerun : the insert methods of PostgresHelper called again and again *)
(*             on one database, as re-runs of main call them.              *)
(* SpecNorm  : process_cost_response applied to bounded raw responses.     *)
(* SpecClassify : get_comprehensive_low_usage_resources applied to bounded *)
(*             listings and metric responses.                              *)
(* SpecCalls : the other analysis functions applied to bounded inputs.     *)
(*                                                                         *)
(* Money is kept in hundredths (12.5 is 1250).                             *)
(***************************************************************************)
EXTENDS Integers, Sequences, FiniteSets, TLC

VARIABLES
    ENABLE_POSTGRES,   \* module flag, __init__.py:34 (and :63 when the import fails)
    SUBSCRIPTION_ID,   \* module value, __init__.py:37 (NONE when the variable is unset)
    db_env,            \* TRUE iff DB_HOST, DB_NAME, DB_USER and DB_PASSWORD are all set
    pc,                \* position of the invocation inside main
    rerun,             \* SpecRerun: the helper calls made so far
    loc,               \* the locals of main
    db,                \* the five tables of the database
    exc,               \* the exception in flight or raised to the invoker, NONE if none
    obs,               \* what this invocation has done so far (calls issued, writes made)
    raw,               \* SpecNorm: the raw response handed to process_cost_response
    out,               \* SpecNorm: what process_cost_response returned
    arg,               \* SpecClassify, SpecCalls: the input of the function called
    ret                \* SpecClassify, SpecCalls: what the call returned, NONE before it

vars == <<ENABLE_POSTGRES, SUBSCRIPTION_ID, db_env, pc, rerun, loc, db, exc, obs, raw, out,
          arg, ret>>

(***************************************************************************)
(* Python values.  A value is a record with a type tag so that strings and *)
(* numbers can sit in the same row: t = "none" (None), "str" or "num".     *)
(***************************************************************************)
NONE == "<None>"

PyNone   == [t |-> "none", s |-> "", n |-> 0]
PyStr(x) == [t |-> "str",  s |-> x,  n |-> 0]
PyNum(k) == [t |-> "num",  s |-> "", n |-> k]

\* Python truthiness: None, "" and 0 are false.
Truthy(v) ==
    CASE v.t = "none" -> FALSE
      [] v.t = "str"  -> v.s # ""
      [] v.t = "num"  -> v.n # 0

\* str(k) of the integers a provider puts in a date or dimension column
\* (a usage date such as 20240301): the decimal numeral, a string.
IntToStr(k) ==
    CASE k = 20240301 -> "20240301"
      [] k = 7        -> "7"
      [] OTHER        -> "<int>"

\* str(v) for a value: a string is itself, an int prints its numeral.
PyStrOf(v) == IF v.t = "str" THEN v.s ELSE IntToStr(v.n)

\* float(v): a number converts, a numeric string parses, any other string
\* raises ValueError.  ok = FALSE stands for the raise.
NumericStrings == {"12.5", "3"}
ParseFloat(s) == CASE s = "12.5" -> 1250 [] s = "3" -> 300 [] OTHER -> 0
PyFloat(v) ==
    CASE v.t = "num" -> [ok |-> TRUE, val |-> v.n]
      [] v.t = "str" -> [ok |-> v.s \in NumericStrings, val |-> ParseFloat(v.s)]
      [] OTHER       -> [ok |-> FALSE, val |-> 0]

(***************************************************************************)
(* process_cost_response, __init__.py:159-197.                             *)
(* A CostRow is a dict; ABSENT marks a key the dict does not have.         *)
(***************************************************************************)
ABSENT == "<absent>"

SingleRow(date_str, dimension, cost_amount) ==
    [date |-> date_str, dimension |-> dimension,
     region_name |-> ABSENT, service_name |-> ABSENT, cost_amount |-> cost_amount]

DoubleRow(date_str, region, service, cost_amount) ==
    [date |-> date_str, dimension |-> ABSENT,
     region_name |-> region, service_name |-> service, cost_amount |-> cost_amount]

\* One iteration of the loop body (lines 171-193) for one raw row:
\* raised = TRUE when float(row[-1]) raises, rows = what was appended.
ProcessRow(row) ==
    IF Len(row) >= 3
    THEN LET date_str == IF Truthy(row[1]) THEN PyStrOf(row[1]) ELSE NONE
             last     == row[Len(row)]
             conv     == PyFloat(last)
             cost     == IF Truthy(last) THEN conv.val ELSE 0
         IN IF Truthy(last) /\ ~conv.ok
            THEN [raised |-> TRUE, rows |-> <<>>]
            ELSE IF Len(row) = 3
                 THEN [raised |-> FALSE,
                       rows |-> <<SingleRow(date_str,
                                   IF Truthy(row[2]) THEN PyStrOf(row[2]) ELSE "Unknown",
                                   cost)>>]
                 ELSE [raised |-> FALSE,
                       rows |-> <<DoubleRow(date_str,
                                   IF Truthy(row[2]) THEN PyStrOf(row[2]) ELSE "Unknown",
                                   IF Truthy(row[3]) THEN PyStrOf(row[3]) ELSE "Unknown",
                                   cost)>>]
    ELSE [raised |-> FALSE, rows |-> <<>>]

\* The for loop inside the single try block: the first raise leaves the
\* loop, and the except clause keeps what was appended before it.
RECURSIVE ProcessRowsFrom(_, _, _)
ProcessRowsFrom(rs, i, acc) ==
    IF i > Len(rs) THEN acc
    ELSE LET r == ProcessRow(rs[i])
         IN IF r.raised THEN acc
            ELSE ProcessRowsFrom(rs, i + 1, acc \o r.rows)

\* A response is [has_rows |-> BOOLEAN, rows |-> Seq(row)]: has_rows is
\* hasattr(response, 'rows'); the dict {'rows': []} of a failed query has
\* no such attribute.
process_cost_response(response) ==
    IF response.has_rows /\ response.rows # <<>>
    THEN ProcessRowsFrom(response.rows, 1, <<>>)
    ELSE <<>>

(***************************************************************************)
(* Calendar dates, as datetime.date: [year, month, day].                   *)
(***************************************************************************)
Date(y, m, d) == [year |-> y, month |-> m, day |-> d]

IsLeap(y) == (y % 4 = 0 /\ y % 100 # 0) \/ (y % 400 = 0)

DaysInMonth(y, m) ==
    IF m \in {1, 3, 5, 7, 8, 10, 12} THEN 31
    ELSE IF m \in {4, 6, 9, 11} THEN 30
    ELSE IF IsLeap(y) THEN 29 ELSE 28

\* d + datetime.timedelta(days=1)
PlusOneDay(d) ==
    IF d.day < DaysInMonth(d.year, d.month) THEN Date(d.year, d.month, d.day + 1)
    ELSE IF d.month < 12 THEN Date(d.year, d.month + 1, 1)
    ELSE Date(d.year + 1, 1, 1)

RECURSIVE DaysBeforeMonth(_, _)
DaysBeforeMonth(y, m) == IF m = 1 THEN 0 ELSE DaysBeforeMonth(y, m - 1) + DaysInMonth(y, m - 1)

\* date.toordinal(): the day number in the proleptic Gregorian calendar.
ToOrdinal(d) ==
    LET y == d.year - 1
    IN y * 365 + (y \div 4) - (y \div 100) + (y \div 400)
       + DaysBeforeMonth(d.year, d.month) + d.day

\* The windows of main, __init__.py:390-417.
start_date_of(today) == Date(today.year, today.month, 1)

last_month_start_of(today) ==
    IF today.month = 1 THEN Date(today.year - 1, 12, 1)
    ELSE Date(today.year, today.month - 1, 1)

\* A faulty variant of last_month_end_of: February always has 28 days.
last_month_end_no_leap(today) ==
    IF today.month = 1 THEN Date(today.year - 1, 12, 31)
    ELSE LET last_day ==
                 IF (today.month - 1) \in {1, 3, 5, 7, 8, 10, 12} THEN 31
                 ELSE IF (today.month - 1) \in {4, 6, 9, 11} THEN 30
                 ELSE 28
         IN Date(today.year, today.month - 1, last_day)

last_month_end_of(today) ==
    IF today.month = 1 THEN Date(today.year - 1, 12, 31)
    ELSE LET last_day ==
                 IF (today.month - 1) \in {1, 3, 5, 7, 8, 10, 12} THEN 31
                 ELSE IF (today.month - 1) \in {4, 6, 9, 11} THEN 30
                 ELSE IF (today.year % 4 = 0 /\ today.year % 100 # 0) \/ (today.year % 400 = 0)
                      THEN 29 ELSE 28
         IN Date(today.year, today.month - 1, last_day)

(***************************************************************************)
(* get_primary_metrics_for_service, __init__.py:203-240.                   *)
(***************************************************************************)
MetricSpec(m, st, th, u) == [metric |-> m, stat |-> st, threshold |-> th, unit |-> u]

default_metrics ==
    << MetricSpec("Requests", "Sum", 10, "Count"),
       MetricSpec("Errors", "Sum", 1, "Count") >>

\* service_metrics.get(resource_type): <<>> stands for a key the dict lacks.
service_metrics(resource_type) ==
    CASE resource_type = "Microsoft.Compute/virtualMachines" ->
           << MetricSpec("Percentage CPU", "Average", 10, "Percent"),
              MetricSpec("Network In", "Average", 1000000, "Bytes"),
              MetricSpec("Disk Read Bytes", "Average", 1000000, "Bytes") >>
      [] resource_type = "Microsoft.DBforPostgreSQL/servers" ->
           << MetricSpec("cpu_percent", "Average", 15, "Percent"),
              MetricSpec("connections_active", "Average", 5, "Count"),
              MetricSpec("io_consumption_percent", "Average", 10, "Percent") >>
      [] resource_type = "Microsoft.Storage/storageAccounts" ->
           << MetricSpec("Transactions", "Sum", 1000, "Count"),
              MetricSpec("UsedCapacity", "Average", 1000000000, "Bytes") >>
      [] resource_type = "Microsoft.Web/sites" ->
           << MetricSpec("HttpRequests", "Sum", 100, "Count"),
              MetricSpec("AverageResponseTime", "Average", 1000, "Milliseconds") >>
      [] resource_type = "Microsoft.ContainerService/managedClusters" ->
           << MetricSpec("cpuUsageNanoCores", "Average", 1000000000, "NanoCores"),
              MetricSpec("memoryWorkingSetBytes", "Average", 1000000000, "Bytes") >>
      [] resource_type = "Microsoft.Network/loadBalancers" ->
           << MetricSpec("ByteCount", "Sum", 1000000, "Bytes"),
              MetricSpec("PacketCount", "Sum", 1000, "Count") >>
      [] OTHER -> <<>>

\* A faulty variant of get_primary_metrics_for_service: the lookup has no default.
get_primary_metrics_without_default(resource_type) == service_metrics(resource_type)

get_primary_metrics_for_service(resource_type) ==
    IF service_metrics(resource_type) # <<>> THEN service_metrics(resource_type)
    ELSE default_metrics

MAX_RESOURCES_TO_ANALYZE == 100
MAX_METRICS_PER_RESOURCE == 5

(***************************************************************************)
(* get_all_resources, __init__.py:242-261.                                 *)
(* A listing is what resource_client.resources.list() yields: its items,   *)
(* and error_at = k > 0 when pulling the k-th item raises (0: no error).   *)
(***************************************************************************)
\* resource.id.split('/')[4] if the id has more than four slashes.
ResourceGroupOf(id) ==
    CASE id = "/subscriptions/s/resourceGroups/rg1/providers/p/r1" -> "rg1"
      [] id = "/subscriptions/s/resourceGroups/rg1/providers/p/r2" -> "rg1"
      [] id = "/subscriptions/s/resourceGroups/rg1/providers/p/r3" -> "rg1"
      [] OTHER -> "Unknown"

\* A faulty variant of PullStep: the loop has no break, the cap is applied to
\* the list once the listing is exhausted.
PullStepWithoutBreak(listing, st) ==
    LET i == st.pulled + 1
    IN IF listing.error_at = i
       THEN [resources |-> <<>>, pulled |-> i, failed |-> TRUE, done |-> TRUE]
       ELSE IF i > Len(listing.items)
       THEN [st EXCEPT !.done = TRUE,
                       !.resources = IF Len(@) <= MAX_RESOURCES_TO_ANALYZE THEN @
                                     ELSE SubSeq(@, 1, MAX_RESOURCES_TO_ANALYZE)]
       ELSE LET r == listing.items[i]
            IN [resources |-> IF r.id # NONE /\ r.id # ""
                              THEN Append(st.resources,
                                          [id |-> r.id, name |-> r.name, type |-> r.type,
                                           location |-> r.location,
                                           resource_group |-> ResourceGroupOf(r.id)])
                              ELSE st.resources,
                pulled |-> i, failed |-> FALSE, done |-> FALSE]

\* One turn of the for loop (lines 246-257) from the state st of the call:
\* the resources collected, the number of descriptors pulled, whether the
\* listing raised, and whether the function is about to return.
PullStep(listing, st) ==
    LET i == st.pulled + 1
    IN IF listing.error_at = i
       THEN [resources |-> <<>>, pulled |-> i, failed |-> TRUE, done |-> TRUE]
       ELSE IF i > Len(listing.items)
       THEN [st EXCEPT !.done = TRUE]
       ELSE LET r == listing.items[i]
                acc2 == IF r.id # NONE /\ r.id # ""
                        THEN Append(st.resources,
                                    [id |-> r.id, name |-> r.name, type |-> r.type,
                                     location |-> r.location,
                                     resource_group |-> ResourceGroupOf(r.id)])
                        ELSE st.resources
            IN [resources |-> acc2, pulled |-> i, failed |-> FALSE,
                done |-> Len(acc2) > Len(st.resources)
                           /\ Len(acc2) >= MAX_RESOURCES_TO_ANALYZE]

\* resources = [] (line 245).
PullStart == [resources |-> <<>>, pulled |-> 0, failed |-> FALSE, done |-> FALSE]

RECURSIVE ListResourcesFrom(_, _, _)
ListResourcesFrom(listing, i, acc) ==
    LET st == PullStep(listing, [PullStart EXCEPT !.resources = acc, !.pulled = i - 1])
    IN IF st.done THEN [resources |-> st.resources, pulled |-> st.pulled, failed |-> st.failed]
       ELSE ListResourcesFrom(listing, i + 1, st.resources)

get_all_resources(listing) == ListResourcesFrom(listing, 1, <<>>)

(***************************************************************************)
(* get_metric_statistics, __init__.py:263-301.                             *)
(* A reading is w + f/1000 with 0 <= f < 1000, kept as [w, f] so that a    *)
(* reading of the size of the byte thresholds fits.  A sample is           *)
(* [null |-> BOOLEAN, w, f]; a metric response is [error, data].           *)
(***************************************************************************)
Reading(w, f) == [w |-> w, f |-> f]

ReadingLess(a, b) == a.w < b.w \/ (a.w = b.w /\ a.f < b.f)

\* A faulty variant of BelowThreshold: a reading equal to the threshold counts.
AtOrBelowThreshold(r, threshold) == r.w < threshold \/ (r.w = threshold /\ r.f = 0)

\* reading < threshold, the threshold being a whole number.
BelowThreshold(r, threshold) == r.w < threshold

\* A faulty variant of NonNull: a null sample counts as 0.
RECURSIVE NullsAsZero(_)
NullsAsZero(data) ==
    IF data = <<>> THEN <<>>
    ELSE <<(IF Head(data).null THEN Reading(0, 0) ELSE Reading(Head(data).w, Head(data).f))>>
         \o NullsAsZero(Tail(data))

RECURSIVE NonNull(_)
NonNull(data) ==
    IF data = <<>> THEN <<>>
    ELSE IF Head(data).null THEN NonNull(Tail(data))
    ELSE <<Reading(Head(data).w, Head(data).f)>> \o NonNull(Tail(data))

RECURSIVE SumW(_)
SumW(values) == IF values = <<>> THEN 0 ELSE Head(values).w + SumW(Tail(values))

RECURSIVE SumF(_)
SumF(values) == IF values = <<>> THEN 0 ELSE Head(values).f + SumF(Tail(values))

SumOf(values) == Reading(SumW(values) + (SumF(values) \div 1000), SumF(values) % 1000)

\* sum(values) / len(values), cut to thousandths.
AverageOf(values) ==
    LET n == Len(values)
        s == SumOf(values)
    IN Reading(s.w \div n, (((s.w % n) * 1000) + s.f) \div n)

RECURSIVE MaxOf(_)
MaxOf(values) ==
    IF Len(values) = 1 THEN Head(values)
    ELSE LET m == MaxOf(Tail(values))
         IN IF ReadingLess(Head(values), m) THEN m ELSE Head(values)

RECURSIVE MinOf(_)
MinOf(values) ==
    IF Len(values) = 1 THEN Head(values)
    ELSE LET m == MinOf(Tail(values))
         IN IF ReadingLess(m, Head(values)) THEN m ELSE Head(values)

\* The result is [some |-> BOOLEAN, val |-> reading]; some = FALSE is None.
NoReading == [some |-> FALSE, val |-> Reading(0, 0)]
Some(r)   == [some |-> TRUE, val |-> r]

get_metric_statistics(response, aggregation) ==
    IF response.error THEN NoReading
    ELSE LET values == NonNull(response.data)
         IN IF values = <<>> THEN NoReading
            ELSE CASE aggregation = "Average" -> Some(AverageOf(values))
                   [] aggregation = "Sum"     -> Some(SumOf(values))
                   [] aggregation = "Maximum" -> Some(MaxOf(values))
                   [] aggregation = "Minimum" -> Some(MinOf(values))
                   [] OTHER                   -> NoReading

(***************************************************************************)
(* get_comprehensive_low_usage_resources, __init__.py:303-364.             *)
(* oracle[<<resource_id, metric>>] is the response of the monitor service  *)
(* to the one query the classifier issues for that pair.                   *)
(***************************************************************************)
\* resource_type.split('/')[-1] if '/' in resource_type else resource_type
ServiceOfType(resource_type) ==
    CASE resource_type = "Microsoft.Compute/virtualMachines" -> "virtualMachines"
      [] resource_type = "Microsoft.DBforPostgreSQL/servers" -> "servers"
      [] resource_type = "Microsoft.Storage/storageAccounts" -> "storageAccounts"
      [] resource_type = "Microsoft.Web/sites" -> "sites"
      [] resource_type = "Microsoft.ContainerService/managedClusters" -> "managedClusters"
      [] resource_type = "Microsoft.Network/loadBalancers" -> "loadBalancers"
      [] resource_type = "Contoso.Custom/widgets" -> "widgets"
      [] OTHER -> resource_type

\* round(float(avg_usage), 2): to the nearest hundredth.  A reading is half
\* way between two hundredths only when its float is (x.125, x.375, ...),
\* and then goes to the even one; the readings of the model have no other
\* third decimal 5.
Round2(r) ==
    LET h    == r.f \div 10
        rest == r.f % 10
        up   == rest > 5 \/ (rest = 5 /\ h % 2 = 1)
        h2   == IF up THEN h + 1 ELSE h
    IN IF h2 = 100 THEN Reading(r.w + 1, 0) ELSE Reading(r.w, h2 * 10)

\* metrics_config[:MAX_METRICS_PER_RESOURCE]
FirstN(s, n) == IF Len(s) <= n THEN s ELSE SubSeq(s, 1, n)

\* The inner try block (lines 330-357) for one (resource, metric) pair.
\* A resource whose type is None makes the finding's 'service' expression
\* raise TypeError, which the inner except logs and skips.
EvaluateMetric(resource, metric_config, oracle) ==
    LET avg_usage == get_metric_statistics(oracle[<<resource.id, metric_config.metric>>],
                                           metric_config.stat)
    IN IF avg_usage.some /\ BelowThreshold(avg_usage.val, metric_config.threshold)
       THEN IF resource.type = NONE THEN <<>>
            ELSE << [service |-> ServiceOfType(resource.type),
                     resource_id |-> resource.id,
                     resource_name |-> resource.name,
                     resource_region |-> resource.location,
                     metric |-> metric_config.metric,
                     average_usage |-> Round2(avg_usage.val),
                     threshold |-> metric_config.threshold,
                     unit |-> metric_config.unit,
                     stat_type |-> metric_config.stat] >>
       ELSE <<>>

\* A faulty variant of EvaluateMetricsFrom: a failed metric query ends the
\* loop over the metrics of the resource.
RECURSIVE EvaluateMetricsUntilFailure(_, _, _, _)
EvaluateMetricsUntilFailure(resource, configs, i, oracle) ==
    IF i > Len(configs) THEN <<>>
    ELSE IF oracle[<<resource.id, configs[i].metric>>].error THEN <<>>
    ELSE EvaluateMetric(resource, configs[i], oracle)
         \o EvaluateMetricsUntilFailure(resource, configs, i + 1, oracle)

RECURSIVE EvaluateMetricsFrom(_, _, _, _)
EvaluateMetricsFrom(resource, configs, i, oracle) ==
    IF i > Len(configs) THEN <<>>
    ELSE EvaluateMetric(resource, configs[i], oracle)
         \o EvaluateMetricsFrom(resource, configs, i + 1, oracle)

EvaluateResource(resource, oracle) ==
    EvaluateMetricsFrom(resource,
        FirstN(get_primary_metrics_for_service(resource.type), MAX_METRICS_PER_RESOURCE),
        1, oracle)

RECURSIVE EvaluateResourcesFrom(_, _, _)
EvaluateResourcesFrom(resources, i, oracle) ==
    IF i > Len(resources) THEN <<>>
    ELSE EvaluateResource(resources[i], oracle)
         \o EvaluateResourcesFrom(resources, i + 1, oracle)

\* The (resource_id, metric) pairs for which a metric query is issued, in order.
RECURSIVE PairsOfConfigs(_, _, _)
PairsOfConfigs(resource, configs, i) ==
    IF i > Len(configs) THEN <<>>
    ELSE <<(<<resource.id, configs[i].metric>>)>> \o PairsOfConfigs(resource, configs, i + 1)

RECURSIVE QueriedPairsFrom(_, _)
QueriedPairsFrom(resources, i) ==
    IF i > Len(resources) THEN <<>>
    ELSE PairsOfConfigs(resources[i],
             FirstN(get_primary_metrics_for_service(resources[i].type),
                    MAX_METRICS_PER_RESOURCE), 1)
         \o QueriedPairsFrom(resources, i + 1)

get_comprehensive_low_usage_resources(listing, oracle) ==
    EvaluateResourcesFrom(get_all_resources(listing).resources, 1, oracle)

(***************************************************************************)
(* The database, src/postgres_helper.py.  A table is the sequence of its   *)
(* rows in insertion order, so that a duplicate row can be told apart.     *)
(***************************************************************************)
\* The DATE PostgreSQL reads from a date string; ok = FALSE when the string
\* is no date (the statement then fails with a psycopg2.DataError).
ParseDate(s) ==
    CASE s = "2024-03-01" -> [ok |-> TRUE, date |-> Date(2024, 3, 1)]
      [] s = "20240301"   -> [ok |-> TRUE, date |-> Date(2024, 3, 1)]
      [] s = "2024-02-01" -> [ok |-> TRUE, date |-> Date(2024, 2, 1)]
      [] s = "2024-07-01" -> [ok |-> TRUE, date |-> Date(2024, 7, 1)]
      [] s = "2024-06-01" -> [ok |-> TRUE, date |-> Date(2024, 6, 1)]
      [] OTHER            -> [ok |-> FALSE, date |-> Date(1, 1, 1)]

\* str(d) of a datetime.date, for the dates the provider answers with.
DateToStr(d) ==
    CASE d = Date(2024, 3, 1) -> "2024-03-01"
      [] d = Date(2024, 2, 1) -> "2024-02-01"
      [] d = Date(2024, 7, 1) -> "2024-07-01"
      [] d = Date(2024, 6, 1) -> "2024-06-01"
      [] OTHER -> "<date>"

\* row.get(a) or row.get(b, default) on a CostRow dict.
GetOr(row, a, b, default) ==
    IF row[a] # ABSENT /\ row[a] # NONE /\ row[a] # ""
    THEN row[a]
    ELSE IF row[b] # ABSENT THEN row[b] ELSE default

\* row.get('date') or row.get('date_period'): a CostRow has no
\* 'date_period' key, so the second get is None.
DateOfRow(row) == IF row.date # ABSENT /\ row.date # NONE /\ row.date # "" THEN row.date ELSE NONE

\* row.get(key, default)
Get(row, key, default) == IF row[key] # ABSENT THEN row[key] ELSE default

\* row.get('cost_amount', 0): every CostRow has the key.
CostAmountOf(row) == row.cost_amount

\* The records list built by insert_service_costs (lines 105-124); those of
\* insert_region_costs (141-160) and insert_region_service_costs (177-197).
\* float(Decimal(str(amount))) gives back the float it is given.
RECURSIVE ServiceRecords(_, _)
ServiceRecords(rows, month_label) ==
    IF rows = <<>> THEN <<>>
    ELSE LET row == Head(rows)
             rest == ServiceRecords(Tail(rows), month_label)
         IN IF DateOfRow(row) = NONE THEN rest
            ELSE <<[date_period |-> DateOfRow(row),
                    service_name |-> GetOr(row, "dimension", "service_name", ""),
                    cost_amount |-> CostAmountOf(row),
                    month_label |-> month_label]>> \o rest

RECURSIVE RegionRecords(_, _)
RegionRecords(rows, month_label) ==
    IF rows = <<>> THEN <<>>
    ELSE LET row == Head(rows)
             rest == RegionRecords(Tail(rows), month_label)
         IN IF DateOfRow(row) = NONE THEN rest
            ELSE <<[date_period |-> DateOfRow(row),
                    region_name |-> GetOr(row, "dimension", "region_name", ""),
                    cost_amount |-> CostAmountOf(row),
                    month_label |-> month_label]>> \o rest

RECURSIVE RegionServiceRecords(_, _)
RegionServiceRecords(rows, month_label) ==
    IF rows = <<>> THEN <<>>
    ELSE LET row == Head(rows)
             rest == RegionServiceRecords(Tail(rows), month_label)
         IN IF DateOfRow(row) = NONE THEN rest
            ELSE <<[date_period |-> DateOfRow(row),
                    region_name |-> Get(row, "region_name", ""),
                    service_name |-> Get(row, "service_name", ""),
                    cost_amount |-> CostAmountOf(row),
                    month_label |-> month_label]>> \o rest

\* The records list of insert_low_usage_resources (lines 252-269).
RECURSIVE LowUsageRecords(_, _)
LowUsageRecords(low_usage_resources, run_date) ==
    IF low_usage_resources = <<>> THEN <<>>
    ELSE LET r == Head(low_usage_resources)
         IN <<[run_date |-> run_date, service_name |-> r.service,
               resource_id |-> r.resource_id, resource_name |-> r.resource_name,
               resource_region |-> r.resource_region, metric_name |-> r.metric,
               average_usage |-> r.average_usage, threshold_value |-> r.threshold,
               unit |-> r.unit, stat_type |-> r.stat_type]>>
            \o LowUsageRecords(Tail(low_usage_resources), run_date)

\* The conflict targets of the INSERT statements.  The date column holds the
\* parsed DATE, so two spellings of one day are one key.
ServiceConflictKey(rec) == <<rec.date_period, rec.service_name, rec.month_label>>
RegionConflictKey(rec)  == <<rec.date_period, rec.region_name, rec.month_label>>
\* ON CONFLICT DO NOTHING names no target (line 174): the unique key is the
\* one the table declares.
RegionServiceUniqueKey(rec) ==
    <<rec.date_period, rec.region_name, rec.service_name, rec.month_label>>

ConflictKey(kind, rec) ==
    CASE kind = "service"        -> ServiceConflictKey(rec)
      [] kind = "region"         -> RegionConflictKey(rec)
      [] kind = "region_service" -> RegionServiceUniqueKey(rec)

\* A faulty variant of InsertOnConflictDoNothing: the statement carries no
\* ON CONFLICT clause.
InsertWithoutConflictClause(kind, table, rec) == Append(table, rec)

\* A faulty variant of InsertOnConflictDoNothing: on a conflict the stored
\* row takes the values of the new record (DO UPDATE).
InsertOnConflictDoUpdate(kind, table, rec) ==
    IF \E i \in 1..Len(table) : ConflictKey(kind, table[i]) = ConflictKey(kind, rec)
    THEN [i \in 1..Len(table) |->
            IF ConflictKey(kind, table[i]) = ConflictKey(kind, rec) THEN rec ELSE table[i]]
    ELSE Append(table, rec)

\* One INSERT ... ON CONFLICT ... DO NOTHING of one record.
InsertOnConflictDoNothing(kind, table, rec) ==
    IF \E i \in 1..Len(table) : ConflictKey(kind, table[i]) = ConflictKey(kind, rec)
    THEN table
    ELSE Append(table, rec)

\* One plain INSERT of one record (lines 245-250).
InsertPlain(table, rec) == Append(table, rec)

\* cursor.executemany over the records, each date string read as a DATE.
RECURSIVE ExecuteManyCosts(_, _, _)
ExecuteManyCosts(kind, table, records) ==
    IF records = <<>> THEN table
    ELSE ExecuteManyCosts(kind,
             InsertOnConflictDoNothing(kind, table,
                 [Head(records) EXCEPT !.date_period = ParseDate(Head(records).date_period).date]),
             Tail(records))

RECURSIVE ExecuteManyLowUsage(_, _)
ExecuteManyLowUsage(table, records) ==
    IF records = <<>> THEN table
    ELSE ExecuteManyLowUsage(InsertPlain(table, Head(records)), Tail(records))

AllDatesParse(records) ==
    \A i \in 1..Len(records) : ParseDate(records[i].date_period).ok

\* A faulty variant of ExecuteBatchCosts: every statement commits on its own, so a
\* failure after the first record leaves that record stored.
ExecuteBatchCostsAutocommit(kind, table, records, db_fails) ==
    IF records = <<>> THEN [raised |-> FALSE, table |-> table]
    ELSE IF db_fails \/ ~AllDatesParse(records)
    THEN [raised |-> TRUE,
          table |-> IF ParseDate(Head(records).date_period).ok
                    THEN ExecuteManyCosts(kind, table, <<Head(records)>>) ELSE table]
    ELSE [raised |-> FALSE, table |-> ExecuteManyCosts(kind, table, records)]

\* _execute_batch_insert, lines 314-331: no records, no connection; else
\* one connection and one commit.  db_fails: psycopg2 raises (connection,
\* statement or commit), nothing of the batch is stored, and the helper
\* raises PostgreSQLDataError or PostgreSQLConnectionError.
ExecuteBatchCosts(kind, table, records, db_fails) ==
    IF records = <<>> THEN [raised |-> FALSE, table |-> table]
    ELSE IF db_fails \/ ~AllDatesParse(records) THEN [raised |-> TRUE, table |-> table]
    ELSE [raised |-> FALSE, table |-> ExecuteManyCosts(kind, table, records)]

ExecuteBatchLowUsage(table, records, db_fails) ==
    IF records = <<>> THEN [raised |-> FALSE, table |-> table]
    ELSE IF db_fails THEN [raised |-> TRUE, table |-> table]
    ELSE [raised |-> FALSE, table |-> ExecuteManyLowUsage(table, records)]

CostRecords(kind, rows, month_label) ==
    CASE kind = "service"        -> ServiceRecords(rows, month_label)
      [] kind = "region"         -> RegionRecords(rows, month_label)
      [] kind = "region_service" -> RegionServiceRecords(rows, month_label)

\* insert_service_costs / insert_region_costs / insert_region_service_costs.
insert_costs(kind, table, rows, month_label, db_fails) ==
    ExecuteBatchCosts(kind, table, CostRecords(kind, rows, month_label), db_fails)

\* insert_low_usage_resources, lines 239-271.
insert_low_usage_resources(table, low_usage_resources, run_date, db_fails) ==
    ExecuteBatchLowUsage(table, LowUsageRecords(low_usage_resources, run_date), db_fails)

\* A faulty variant of insert_monitoring_run: the insert is issued again after the commit.
insert_monitoring_run_twice(table, run_data, db_fails) ==
    IF db_fails THEN [raised |-> TRUE, table |-> table]
    ELSE [raised |-> FALSE, table |-> Append(Append(table, run_data), run_data)]

\* insert_monitoring_run, lines 273-312.
insert_monitoring_run(table, run_data, db_fails) ==
    IF db_fails THEN [raised |-> TRUE, table |-> table]
    ELSE [raised |-> FALSE, table |-> Append(table, run_data)]

\* cleanup_old_data, lines 333-365: one transaction over the four tables.
RECURSIVE KeepFrom(_, _, _)
KeepFrom(table, field, cutoff) ==
    IF table = <<>> THEN <<>>
    ELSE IF ToOrdinal(Head(table)[field]) < cutoff
         THEN KeepFrom(Tail(table), field, cutoff)
         ELSE <<Head(table)>> \o KeepFrom(Tail(table), field, cutoff)

cleanup_old_data(d, today, days_to_keep, db_fails) ==
    LET cutoff == ToOrdinal(today) - days_to_keep
    IN IF db_fails THEN d
       ELSE [d EXCEPT
               !.azure_service_costs = KeepFrom(@, "date_period", cutoff),
               !.azure_region_costs = KeepFrom(@, "date_period", cutoff),
               !.azure_region_service_costs = KeepFrom(@, "date_period", cutoff),
               !.azure_low_usage_resources = KeepFrom(@, "run_date", cutoff)]

(***************************************************************************)
(* The environment of one invocation: the clock, the cost-management,      *)
(* resource and monitor services, and the database connection.             *)
(***************************************************************************)
\* The days on which an invocation may run.
TodaySet == {Date(2024, 3, 10), Date(2024, 7, 15)}

\* What the cost-management service answers for a grouping and a window
\* whose first day is d, when the query succeeds.
ProviderRows(grouping, d) ==
    CASE grouping = "service" ->
           << <<PyStr(DateToStr(d)), PyStr("Virtual Machines"), PyNum(1250)>>,
              <<PyStr(DateToStr(d)), PyStr("Storage"), PyNum(0)>> >>
      [] grouping = "region" ->
           << <<PyStr(DateToStr(d)), PyStr("eastus"), PyNum(1250)>> >>
      [] grouping = "region_service" ->
           << <<PyStr(DateToStr(d)), PyStr("eastus"), PyStr("Virtual Machines"), PyNum(1250)>> >>

\* A faulty variant of get_cost_data: the exception of the query is not caught.
get_cost_data_uncaught(raises, rows) ==
    IF raises THEN [escaped |-> TRUE, response |-> [has_rows |-> FALSE, rows |-> <<>>]]
    ELSE [escaped |-> FALSE, response |-> [has_rows |-> TRUE, rows |-> rows]]

\* get_cost_data, __init__.py:84-122: the response of the query, or the
\* dict {'rows': []} when anything in the try block raises.  escaped tells
\* whether an exception leaves the function: the except clause catches all.
get_cost_data(raises, rows) ==
    IF raises THEN [escaped |-> FALSE, response |-> [has_rows |-> FALSE, rows |-> <<>>]]
    ELSE [escaped |-> FALSE, response |-> [has_rows |-> TRUE, rows |-> rows]]

\* The resources an account may list, and the listings of the model.
Widget ==
    [id |-> "/subscriptions/s/resourceGroups/rg1/providers/p/r1", name |-> "r1",
     type |-> "Contoso.Custom/widgets", location |-> "eastus"]

Listings ==
    { [items |-> <<>>, error_at |-> 1],
      [items |-> <<>>, error_at |-> 0],
      [items |-> <<Widget>>, error_at |-> 0] }

MetricResponses ==
    { [error |-> TRUE,  data |-> <<>>],
      [error |-> FALSE, data |-> << [null |-> FALSE, w |-> 0, f |-> 500] >>],
      [error |-> FALSE, data |-> << [null |-> FALSE, w |-> 50, f |-> 0] >>] }

\* The pairs a listing makes the classifier query.
PairSet(listing) ==
    LET ps == QueriedPairsFrom(get_all_resources(listing).resources, 1)
    IN {ps[i] : i \in 1..Len(ps)}

Oracles(listing) == [PairSet(listing) -> MetricResponses]

(***************************************************************************)
(* main, __init__.py:370-605.                                              *)
(***************************************************************************)
\* The value of a date local before main assigns it.
NoDate == Date(0, 0, 0)

LocInit(today) ==
    [today |-> today,
     start_date |-> NoDate, end_date |-> NoDate,
     last_month_start |-> NoDate, last_month_end |-> NoDate,
     cost_data_service |-> <<>>, cost_data_region |-> <<>>,
     cost_data_region_service |-> <<>>,
     last_month_cost_data_service |-> <<>>, last_month_cost_data_region |-> <<>>,
     last_month_cost_data_region_service |-> <<>>,
     low_usage_resources |-> <<>>, last_month_low_usage_resources |-> <<>>,
     current_total_cost |-> 0, last_total_cost |-> 0,
     postgres_results |-> "none"]

ObsInit ==
    [provider_calls |-> 0,        \* cost, resource and metric queries issued
     provider_failed |-> FALSE,   \* one of them raised
     classified |-> [current |-> 0, last_month |-> 0],
     run_writes |-> 0,            \* run records committed
     fail_write_attempts |-> 0,   \* insert_monitoring_run calls of the except block
     failed_at |-> NONE,          \* the persistence step that raised, if one did
     committed |-> {}]            \* the batches committed, by step

DbInit ==
    [azure_service_costs |-> <<>>, azure_region_costs |-> <<>>,
     azure_region_service_costs |-> <<>>, azure_low_usage_resources |-> <<>>,
     azure_cost_monitoring_runs |-> <<>>]

\* SpecRerun's record of the calls made: their number, whether a batch was
\* inserted whose keys were all stored, whether a batch was inserted that
\* carried another amount for a stored key, the latest day of a call, and
\* per kind the records that were the first to be committed for their key.
RerunInit ==
    [inserts |-> 0, repeated |-> FALSE, differs |-> FALSE,
     clock |-> Date(2024, 3, 10),
     first |-> [service |-> {}, region |-> {}, region_service |-> {}]]

NoResponse == [has_rows |-> FALSE, rows |-> <<>>]

Init ==
    /\ ENABLE_POSTGRES \in BOOLEAN
    /\ SUBSCRIPTION_ID \in {NONE, "sub-1"}
    /\ db_env \in BOOLEAN
    /\ pc = "start"
    /\ rerun = RerunInit
    /\ \E today \in TodaySet : loc = LocInit(today)
    /\ db = DbInit
    /\ exc = NONE
    /\ obs = ObsInit
    /\ raw = NoResponse
    /\ out = <<>>
    /\ arg = NONE
    /\ ret = NONE

config == <<ENABLE_POSTGRES, SUBSCRIPTION_ID, db_env>>
other  == <<raw, out, rerun, arg, ret>>

\* A faulty variant of Start: the subscription id is not checked.
StartWithoutValidation ==
    /\ pc = "start"
    /\ exc' = exc
    /\ pc' = "fetch_service"
    /\ loc' = [loc EXCEPT !.start_date = start_date_of(loc.today),
                          !.end_date = loc.today,
                          !.last_month_start = last_month_start_of(loc.today),
                          !.last_month_end = last_month_end_of(loc.today)]
    /\ UNCHANGED <<config, db, obs, other>>

\* Lines 374-420: the configuration check, the clients and the windows.
Start ==
    /\ pc = "start"
    /\ \E client_raises \in BOOLEAN :
         IF SUBSCRIPTION_ID = NONE
         THEN /\ exc' = "ValueError"
              /\ pc' = "except"
              /\ loc' = loc
         ELSE IF client_raises
         THEN /\ exc' = "ClientAuthenticationError"
              /\ pc' = "except"
              /\ loc' = loc
         ELSE /\ exc' = exc
              /\ pc' = "fetch_service"
              /\ loc' = [loc EXCEPT !.start_date = start_date_of(loc.today),
                                    !.end_date = loc.today,
                                    !.last_month_start = last_month_start_of(loc.today),
                                    !.last_month_end = last_month_end_of(loc.today)]
    /\ UNCHANGED <<config, db, obs, other>>

\* Lines 422-448: the six cost queries, each normalised as it returns.
FetchSteps ==
    <<"fetch_service", "fetch_region", "fetch_region_service",
      "fetch_last_service", "fetch_last_region", "fetch_last_region_service">>

FetchInfo(step) ==
    CASE step = "fetch_service" ->
           [grouping |-> "service", var |-> "cost_data_service", last |-> FALSE,
            next |-> "fetch_region"]
      [] step = "fetch_region" ->
           [grouping |-> "region", var |-> "cost_data_region", last |-> FALSE,
            next |-> "fetch_region_service"]
      [] step = "fetch_region_service" ->
           [grouping |-> "region_service", var |-> "cost_data_region_service", last |-> FALSE,
            next |-> "fetch_last_service"]
      [] step = "fetch_last_service" ->
           [grouping |-> "service", var |-> "last_month_cost_data_service", last |-> TRUE,
            next |-> "fetch_last_region"]
      [] step = "fetch_last_region" ->
           [grouping |-> "region", var |-> "last_month_cost_data_region", last |-> TRUE,
            next |-> "fetch_last_region_service"]
      [] step = "fetch_last_region_service" ->
           [grouping |-> "region_service", var |-> "last_month_cost_data_region_service",
            last |-> TRUE, next |-> "classify"]

FetchCost ==
    /\ pc \in {FetchSteps[i] : i \in 1..Len(FetchSteps)}
    /\ \E raises \in BOOLEAN :
         LET info == FetchInfo(pc)
             d    == IF info.last THEN loc.last_month_start ELSE loc.start_date
             r    == get_cost_data(raises, ProviderRows(info.grouping, d))
         IN /\ obs' = [obs EXCEPT !.provider_calls = @ + 1,
                                  !.provider_failed = @ \/ raises]
            /\ IF r.escaped
               THEN /\ exc' = "HttpResponseError"
                    /\ pc' = "except"
                    /\ loc' = loc
               ELSE /\ exc' = exc
                    /\ pc' = info.next
                    /\ loc' = [loc EXCEPT ![info.var] = process_cost_response(r.response)]
    /\ UNCHANGED <<config, db, other>>

\* What one call of the classifier adds to the observations.
ObsClassify(o, window, listing, oracle) ==
    LET found == get_all_resources(listing)
        pairs == PairSet(listing)
    IN [o EXCEPT !.provider_calls = @ + 1 + Cardinality(pairs),
                 !.provider_failed = @ \/ found.failed \/ (\E p \in pairs : oracle[p].error),
                 !.classified[window] = @ + 1]

\* A faulty variant of ClassifyCurrent: the current window is classified only when
\* persistence is enabled.
ClassifyCurrentIfPersisting ==
    /\ pc = "classify"
    /\ IF ENABLE_POSTGRES
       THEN \E listing \in Listings : \E oracle \in Oracles(listing) :
              /\ loc' = [loc EXCEPT !.low_usage_resources =
                             get_comprehensive_low_usage_resources(listing, oracle)]
              /\ obs' = ObsClassify(obs, "current", listing, oracle)
       ELSE UNCHANGED <<loc, obs>>
    /\ pc' = "totals"
    /\ UNCHANGED <<config, db, exc, other>>

\* Lines 450-454.
ClassifyCurrent ==
    /\ pc = "classify"
    /\ \E listing \in Listings : \E oracle \in Oracles(listing) :
         /\ loc' = [loc EXCEPT !.low_usage_resources =
                        get_comprehensive_low_usage_resources(listing, oracle)]
         /\ obs' = ObsClassify(obs, "current", listing, oracle)
    /\ pc' = "totals"
    /\ UNCHANGED <<config, db, exc, other>>

RECURSIVE SumCost(_)
SumCost(rows) == IF rows = <<>> THEN 0 ELSE CostAmountOf(Head(rows)) + SumCost(Tail(rows))

\* A faulty variant of ComputeTotals: the persistence phase starts with the
\* totals not yet summed.
ComputeTotalsSkipped ==
    /\ pc = "totals"
    /\ pc' = IF ENABLE_POSTGRES THEN "connect" ELSE "report"
    /\ UNCHANGED <<config, loc, db, exc, obs, other>>

\* Lines 456-467.
ComputeTotals ==
    /\ pc = "totals"
    /\ loc' = [loc EXCEPT !.current_total_cost = SumCost(loc.cost_data_service),
                          !.last_total_cost = SumCost(loc.last_month_cost_data_service)]
    /\ pc' = IF ENABLE_POSTGRES THEN "connect" ELSE "report"
    /\ UNCHANGED <<config, db, exc, obs, other>>

\* A faulty variant of PersistFailed: the persistence error is raised out of main.
PersistFailedRaises ==
    /\ loc' = [loc EXCEPT !.postgres_results = "failed"]
    /\ obs' = [obs EXCEPT !.failed_at = pc]
    /\ pc' = "except"
    /\ exc' = "PostgreSQLDataError"

\* The inner except clauses, lines 552-557: the error is logged and kept in
\* postgres_results; main goes on to the report.
PersistFailed ==
    /\ loc' = [loc EXCEPT !.postgres_results = "failed"]
    /\ obs' = [obs EXCEPT !.failed_at = pc]
    /\ pc' = "report"
    /\ exc' = exc

\* Lines 469-476: create_postgres_helper (_get_db_config raises when a
\* required variable is missing) and the connectivity test.
TestConnection ==
    /\ pc = "connect"
    /\ \E connects \in BOOLEAN :
         IF db_env /\ connects
         THEN /\ pc' = "insert_service"
              /\ UNCHANGED <<loc, obs, exc>>
         ELSE PersistFailed
    /\ UNCHANGED <<config, db, other>>

\* insert_azure_cost_data, postgres_helper.py:374-394, called for the
\* current window (lines 479-486) and the previous month (lines 493-500):
\* four batch inserts, each on a connection of its own.
InsertInfo(step) ==
    CASE step = "insert_service" ->
           [kind |-> "service", table |-> "azure_service_costs",
            var |-> "cost_data_service", label |-> "current", next |-> "insert_region"]
      [] step = "insert_region" ->
           [kind |-> "region", table |-> "azure_region_costs",
            var |-> "cost_data_region", label |-> "current",
            next |-> "insert_region_service"]
      [] step = "insert_region_service" ->
           [kind |-> "region_service", table |-> "azure_region_service_costs",
            var |-> "cost_data_region_service", label |-> "current",
            next |-> "insert_low_usage"]
      [] step = "insert_last_service" ->
           [kind |-> "service", table |-> "azure_service_costs",
            var |-> "last_month_cost_data_service", label |-> "last_month",
            next |-> "insert_last_region"]
      [] step = "insert_last_region" ->
           [kind |-> "region", table |-> "azure_region_costs",
            var |-> "last_month_cost_data_region", label |-> "last_month",
            next |-> "insert_last_region_service"]
      [] step = "insert_last_region_service" ->
           [kind |-> "region_service", table |-> "azure_region_service_costs",
            var |-> "last_month_cost_data_region_service", label |-> "last_month",
            next |-> "insert_last_low_usage"]

InsertCostSteps ==
    {"insert_service", "insert_region", "insert_region_service",
     "insert_last_service", "insert_last_region", "insert_last_region_service"}

InsertCosts ==
    /\ pc \in InsertCostSteps
    /\ \E db_fails \in BOOLEAN :
         LET info == InsertInfo(pc)
             r    == insert_costs(info.kind, db[info.table], loc[info.var], info.label, db_fails)
         IN /\ db' = [db EXCEPT ![info.table] = r.table]
            /\ IF r.raised
               THEN PersistFailed
               ELSE
                 /\ pc' = info.next
                 /\ loc' = loc
                 /\ exc' = exc
                 /\ obs' = [obs EXCEPT !.committed =
                               IF CostRecords(info.kind, loc[info.var], info.label) = <<>>
                               THEN @ ELSE @ \cup {pc}]
    /\ UNCHANGED <<config, other>>

InsertLowUsage ==
    /\ pc \in {"insert_low_usage", "insert_last_low_usage"}
    /\ \E db_fails \in BOOLEAN :
         LET findings == IF pc = "insert_low_usage" THEN loc.low_usage_resources
                         ELSE loc.last_month_low_usage_resources
             r == insert_low_usage_resources(db.azure_low_usage_resources, findings,
                                             loc.today, db_fails)
         IN /\ db' = [db EXCEPT !.azure_low_usage_resources = r.table]
            /\ IF r.raised
               THEN PersistFailed
               ELSE
                 /\ pc' = IF pc = "insert_low_usage" THEN "classify_last" ELSE "insert_run"
                 /\ loc' = loc
                 /\ exc' = exc
                 /\ obs' = [obs EXCEPT !.committed =
                               IF findings = <<>> THEN @ ELSE @ \cup {pc}]
    /\ UNCHANGED <<config, other>>

\* Lines 488-491: the previous month is classified inside the persistence
\* block, after the inserts of the current window.
ClassifyLastMonth ==
    /\ pc = "classify_last"
    /\ \E listing \in Listings : \E oracle \in Oracles(listing) :
         /\ loc' = [loc EXCEPT !.last_month_low_usage_resources =
                        get_comprehensive_low_usage_resources(listing, oracle)]
         /\ obs' = ObsClassify(obs, "last_month", listing, oracle)
    /\ pc' = "insert_last_service"
    /\ UNCHANGED <<config, db, exc, other>>

\* run_metadata of lines 520-531 (execution_time_ms, a clock reading, is
\* left out).
SuccessMetadata(l) ==
    [run_date |-> l.today, start_date |-> l.start_date, end_date |-> l.end_date,
     last_month_start |-> l.last_month_start, last_month_end |-> l.last_month_end,
     total_current_cost |-> l.current_total_cost,
     total_last_month_cost |-> l.last_total_cost,
     low_usage_count |-> Len(l.low_usage_resources),
     execution_status |-> "success", error_message |-> NONE]

\* run_metadata of lines 588-600.
FailureMetadata(today, e) ==
    [run_date |-> today, start_date |-> Date(today.year, today.month, 1),
     end_date |-> today,
     last_month_start |-> Date(today.year, today.month, 1), last_month_end |-> today,
     total_current_cost |-> 0, total_last_month_cost |-> 0, low_usage_count |-> 0,
     execution_status |-> "failed", error_message |-> e]

\* Lines 519-550.
InsertRun ==
    /\ pc = "insert_run"
    /\ \E db_fails \in BOOLEAN :
         LET r == insert_monitoring_run(db.azure_cost_monitoring_runs,
                                        SuccessMetadata(loc), db_fails)
         IN /\ db' = [db EXCEPT !.azure_cost_monitoring_runs = r.table]
            /\ IF r.raised
               THEN PersistFailed
               ELSE
                 /\ loc' = [loc EXCEPT !.postgres_results = "success"]
                 /\ obs' = [obs EXCEPT !.run_writes = @ + 1,
                                       !.committed = @ \cup {pc}]
                 /\ pc' = "report"
                 /\ exc' = exc
    /\ UNCHANGED <<config, other>>

\* Lines 559-577: the log summary and the optional cleanup, whose failure
\* is logged and dropped.  main then returns.
Report ==
    /\ pc = "report"
    /\ \E db_fails \in BOOLEAN :
         db' = IF ENABLE_POSTGRES /\ loc.postgres_results = "success"
               THEN cleanup_old_data(db, loc.today, 90, db_fails)
               ELSE db
    /\ pc' = "done"
    /\ UNCHANGED <<config, loc, exc, obs, other>>

\* Lines 579-605: the failure record is tried when persistence is enabled;
\* whatever the try block raises is dropped, and the exception caught at
\* line 579 is raised again.
\* A faulty variant of Reraised: what the failure write raised replaces the exception.
ReraisedLatest(e, try_raised) == IF try_raised THEN "PostgreSQLConnectionError" ELSE e

\* Lines 602-605: "except: pass" drops what the try block of the failure
\* write raised (try_raised), and the bare raise re-raises the exception e
\* caught at line 579.
Reraised(e, try_raised) == e

\* error_msg of line 580.
ErrorMessage(e) ==
    IF e = "ValueError"
    THEN "Azure Function execution failed: AZURE_SUBSCRIPTION_ID environment variable is required"
    ELSE "Azure Function execution failed: <str(e)>"

HandleException ==
    /\ pc = "except"
    /\ \E db_fails \in BOOLEAN :
         IF ENABLE_POSTGRES /\ db_env
         THEN LET r == insert_monitoring_run(db.azure_cost_monitoring_runs,
                           FailureMetadata(loc.today, ErrorMessage(exc)), db_fails)
              IN /\ db' = [db EXCEPT !.azure_cost_monitoring_runs = r.table]
                 /\ obs' = [obs EXCEPT !.fail_write_attempts = @ + 1,
                                       !.run_writes = IF r.raised THEN @ ELSE @ + 1]
                 /\ exc' = Reraised(exc, r.raised)
         ELSE /\ UNCHANGED <<db, obs>>
              /\ exc' = Reraised(exc, ENABLE_POSTGRES)
    /\ pc' = "raised"
    /\ UNCHANGED <<config, loc, other>>

Next ==
    \/ Start
    \/ FetchCost
    \/ ClassifyCurrent
    \/ ComputeTotals
    \/ TestConnection
    \/ InsertCosts
    \/ InsertLowUsage
    \/ ClassifyLastMonth
    \/ InsertRun
    \/ Report
    \/ HandleException

Spec == Init /\ [][Next]_vars

(***************************************************************************)
(* Properties of one invocation (Spec).                                    *)
(***************************************************************************)
Finished == pc \in {"done", "raised"}

RunLog == db.azure_cost_monitoring_runs

\* The exception the body of the run raised, from the configuration.
OriginalException ==
    IF SUBSCRIPTION_ID = NONE THEN "ValueError" ELSE "ClientAuthenticationError"

\* C1 as stated: every invocation writes exactly one RunSummary, whatever
\* fails during the run.
C1_ExactlyOneRunSummary == Finished => Len(RunLog) = 1

\* C1 (amended): an invocation writes at most one RunSummary.  A run that
\* returns has written one, with status success, exactly when its persistence
\* phase succeeded; a run that raises has written at most one, with status
\* failed; a run without persistence, or whose persistence phase failed,
\* has written none.
C1_AtMostOneRunSummary ==
    /\ Len(RunLog) <= 1
    /\ Len(RunLog) = obs.run_writes
    /\ pc = "done" =>
         /\ Len(RunLog) = 1 <=> loc.postgres_results = "success"
         /\ Len(RunLog) = 1 => RunLog[1].execution_status = "success"
         /\ (~ENABLE_POSTGRES \/ obs.failed_at # NONE) => Len(RunLog) = 0
    /\ pc = "raised" =>
         /\ Len(RunLog) = 1 => RunLog[1].execution_status = "failed"
         /\ ~ENABLE_POSTGRES => Len(RunLog) = 0

C1_Witness ==
    /\ pc = "done"
    /\ obs.provider_failed
    /\ Len(RunLog) = 1
    /\ RunLog[1].execution_status = "success"

\* C2 as stated: when an exception escapes the body, one failure write is
\* attempted and the original exception reaches the invoker.
C2_FailureWriteAlwaysAttempted ==
    pc = "raised" => obs.fail_write_attempts = 1 /\ exc = OriginalException

\* C2 (amended): when an exception escapes the body, the failure write is
\* attempted exactly once if persistence is enabled and the database
\* settings are present, and not at all otherwise; a record it stores has
\* run_date = today, zero totals, status failed and the error message; the
\* original exception reaches the invoker in every case, also when the
\* failure write fails.
C2_FailureWriteThenReraise ==
    pc = "raised" =>
      /\ obs.fail_write_attempts = IF ENABLE_POSTGRES /\ db_env THEN 1 ELSE 0
      /\ exc = OriginalException
      /\ Len(RunLog) <= obs.fail_write_attempts
      /\ Len(RunLog) = 1 =>
           /\ RunLog[1].run_date = loc.today
           /\ RunLog[1].total_current_cost = 0
           /\ RunLog[1].total_last_month_cost = 0
           /\ RunLog[1].low_usage_count = 0
           /\ RunLog[1].execution_status = "failed"
           /\ RunLog[1].error_message = ErrorMessage(OriginalException)

C2_Witness ==
    /\ pc = "raised"
    /\ obs.fail_write_attempts = 1
    /\ Len(RunLog) = 0
    /\ exc = "ClientAuthenticationError"

\* C3 as stated: a persistence failure propagates to the invoker as a hard
\* error, after a diagnostic run record has been written.
C3_PersistenceFailurePropagates ==
    (Finished /\ obs.failed_at # NONE) => (pc = "raised" /\ Len(RunLog) >= 1)

\* C3 (amended): a persistence failure (missing database settings, failed
\* connectivity test, failed cost or finding insert, failed run-summary
\* insert) is absorbed: main records status failed in its result and
\* returns normally, no exception reaches the invoker and no run record is
\* written.
C3_PersistenceFailureAbsorbed ==
    obs.failed_at # NONE =>
      /\ pc \in {"report", "done"}
      /\ exc = NONE
      /\ loc.postgres_results = "failed"
      /\ Len(RunLog) = 0

C3_Witness ==
    /\ pc = "done"
    /\ obs.failed_at = "insert_run"
    /\ obs.committed # {}

\* C4: a failing provider call (cost query, resource listing, metric query)
\* never aborts the run: no exception is in flight once a provider call has
\* been issued, the run goes on to the totals (computed from what the
\* queries gave, a failed query giving no rows), and when the persistence
\* phase succeeds the run ends with a success record although provider
\* calls failed.
C4_ProviderFailureNeverAborts ==
    /\ obs.provider_calls > 0 => (exc = NONE /\ pc \notin {"except", "raised"})
    /\ (pc = "done" /\ obs.provider_failed) =>
         /\ obs.classified.current = 1
         /\ loc.current_total_cost = SumCost(loc.cost_data_service)
         /\ loc.last_total_cost = SumCost(loc.last_month_cost_data_service)
         /\ (ENABLE_POSTGRES /\ obs.failed_at = NONE) =>
               (Len(RunLog) = 1 /\ RunLog[1].execution_status = "success")

C4_Witness ==
    /\ pc = "done"
    /\ obs.provider_failed
    /\ loc.cost_data_service = <<>>
    /\ loc.last_month_cost_data_region # <<>>
    /\ loc.postgres_results = "success"

\* A required setting is missing.
ConfigurationError == SUBSCRIPTION_ID = NONE \/ (ENABLE_POSTGRES /\ ~db_env)

\* C5 as stated: a configuration error (subscription id, or a database
\* setting when persistence is enabled) is raised before any provider call.
C5_ConfigurationErrorFatalAtStartup ==
    ConfigurationError => (obs.provider_calls = 0 /\ pc # "done")

\* C5 (amended): a missing subscription id is fatal at startup: ValueError
\* is raised before any cost query, resource listing or metric query.  A
\* missing database setting is not: it is found only when the persistence
\* phase creates the helper, after the six cost queries and the
\* classification of the current window, and it is absorbed as a failed
\* persistence status; nothing is raised and nothing is stored.
C5_MissingSubscriptionFatalAtStartup ==
    /\ SUBSCRIPTION_ID = NONE =>
         /\ obs.provider_calls = 0
         /\ pc \in {"start", "except", "raised"}
         /\ pc # "start" => exc = "ValueError"
    /\ (SUBSCRIPTION_ID # NONE /\ ENABLE_POSTGRES /\ ~db_env /\ pc = "done") =>
         /\ obs.provider_calls >= 7
         /\ obs.classified.current = 1
         /\ obs.failed_at = "connect"
         /\ exc = NONE
         /\ db = DbInit

C5_Witness ==
    /\ pc = "raised"
    /\ SUBSCRIPTION_ID = NONE
    /\ exc = "ValueError"
    /\ obs.provider_calls = 0

\* C6 as stated: every run that does not fail classifies both windows once.
C6_BothWindowsClassified ==
    pc = "done" => (obs.classified.current = 1 /\ obs.classified.last_month = 1)

LastMonthSteps ==
    {"insert_last_service", "insert_last_region", "insert_last_region_service",
     "insert_last_low_usage", "insert_run"}

\* C6 (amended): every run that does not fail classifies the current window
\* exactly once; it classifies the previous month exactly once when
\* persistence is enabled, the connectivity test passed and the four inserts
\* of the current window succeeded, and not at all otherwise.
C6_LastMonthClassifiedInsidePersistence ==
    /\ obs.classified.current <= 1
    /\ obs.classified.last_month <= 1
    /\ pc = "done" =>
         /\ obs.classified.current = 1
         /\ obs.classified.last_month =
              IF ENABLE_POSTGRES /\ (obs.failed_at = NONE \/ obs.failed_at \in LastMonthSteps)
              THEN 1 ELSE 0

C6_Witness ==
    /\ pc = "done"
    /\ ENABLE_POSTGRES
    /\ obs.failed_at = "insert_low_usage"
    /\ obs.classified.current = 1
    /\ obs.classified.last_month = 0

\* The keys a cost step has in its table, and those its batch holds.
StoredKeys(step) ==
    LET info == InsertInfo(step)
        t    == db[info.table]
    IN {ConflictKey(info.kind, t[i]) : i \in {j \in 1..Len(t) : t[j].month_label = info.label}}

ExpectedKeys(step) ==
    LET info == InsertInfo(step)
        recs == CostRecords(info.kind, loc[info.var], info.label)
    IN {ConflictKey(info.kind,
            [recs[i] EXCEPT !.date_period = ParseDate(recs[i].date_period).date]) :
        i \in 1..Len(recs)}

ExpectedFindings(committed) ==
    (IF "insert_low_usage" \in committed THEN Len(loc.low_usage_resources) ELSE 0)
    + (IF "insert_last_low_usage" \in committed
       THEN Len(loc.last_month_low_usage_resources) ELSE 0)

AllResultsStored ==
    /\ \A s \in InsertCostSteps : StoredKeys(s) = ExpectedKeys(s)
    /\ Len(db.azure_low_usage_resources)
         = ExpectedFindings({"insert_low_usage", "insert_last_low_usage"})
    /\ Len(RunLog) = 1

\* C7 as stated: after a run either all of its results are stored or none.
C7_RunStoredAtomically == pc = "done" => (AllResultsStored \/ db = DbInit)

PersistOrder ==
    <<"insert_service", "insert_region", "insert_region_service", "insert_low_usage",
      "insert_last_service", "insert_last_region", "insert_last_region_service",
      "insert_last_low_usage", "insert_run">>

StepsBefore(step) ==
    {PersistOrder[i] : i \in {j \in 1..Len(PersistOrder) :
        \E k \in (j + 1)..Len(PersistOrder) : PersistOrder[k] = step}}

\* C7 (amended): each batch insert is atomic on its own: a batch that
\* failed has stored none of its records and a committed batch all of them.
\* The batches are committed one after the other, so a failure part-way
\* leaves the batches committed before it stored, with no RunSummary; the
\* success RunSummary is stored only after every other batch.
C7_EachBatchAtomic ==
    /\ \A s \in InsertCostSteps :
         StoredKeys(s) = IF s \in obs.committed THEN ExpectedKeys(s) ELSE {}
    /\ Len(db.azure_low_usage_resources) = ExpectedFindings(obs.committed)
    /\ (obs.failed_at # NONE /\ obs.failed_at # "connect") =>
         (obs.committed \subseteq StepsBefore(obs.failed_at) /\ Len(RunLog) = 0)
    /\ (pc = "done" /\ Len(RunLog) = 1) => AllResultsStored

C7_Witness ==
    /\ pc = "done"
    /\ obs.failed_at = "insert_region"
    /\ Len(db.azure_service_costs) = 2
    /\ db.azure_region_costs = <<>>
    /\ Len(RunLog) = 0

(***************************************************************************)
(* SpecRerun: the insert methods and the cleanup of PostgresHelper, called *)
(* again and again on one database with the batches that invocations of    *)
(* main hand them.                                                         *)
(***************************************************************************)
MaxInserts == 3

Kinds == {"service", "region", "region_service"}

TableOf(kind) ==
    CASE kind = "service"        -> "azure_service_costs"
      [] kind = "region"         -> "azure_region_costs"
      [] kind = "region_service" -> "azure_region_service_costs"

\* What the service answers when asked again later the same month: the
\* same keys, the amounts grown.
ProviderRowsLater(grouping, d) ==
    CASE grouping = "service" ->
           << <<PyStr(DateToStr(d)), PyStr("Virtual Machines"), PyNum(1900)>>,
              <<PyStr(DateToStr(d)), PyStr("Storage"), PyNum(40)>> >>
      [] grouping = "region" ->
           << <<PyStr(DateToStr(d)), PyStr("eastus"), PyNum(1940)>> >>
      [] grouping = "region_service" ->
           << <<PyStr(DateToStr(d)), PyStr("eastus"), PyStr("Virtual Machines"), PyNum(1900)>> >>

\* The batches of CostRows main hands to an insert of the given kind.
RerunBatches(kind) ==
    { process_cost_response(get_cost_data(FALSE, ProviderRows(kind, Date(2024, 3, 1))).response),
      process_cost_response(get_cost_data(FALSE, ProviderRowsLater(kind, Date(2024, 3, 1))).response) }

\* The findings main hands to insert_low_usage_resources.
RerunFindings ==
    { get_comprehensive_low_usage_resources(listing, oracle) :
        listing \in {[items |-> <<Widget>>, error_at |-> 0]},
        oracle \in {[p \in PairSet([items |-> <<Widget>>, error_at |-> 0]) |-> r] :
                        r \in {m \in MetricResponses : ~m.error}} }

\* Every key of the batch is already stored under the label.
AllKeysStored(kind, table, rows, label) ==
    LET recs == CostRecords(kind, rows, label)
    IN /\ recs # <<>>
       /\ \A i \in 1..Len(recs) : \E j \in 1..Len(table) :
            ConflictKey(kind, table[j]) =
              ConflictKey(kind, [recs[i] EXCEPT !.date_period = ParseDate(recs[i].date_period).date])

\* The records of a batch as the database reads them.
ParsedRecords(kind, rows, label) ==
    LET recs == CostRecords(kind, rows, label)
    IN [i \in 1..Len(recs) |->
          [recs[i] EXCEPT !.date_period = ParseDate(recs[i].date_period).date]]

\* The batch carries, for a key already stored, another amount.
OtherAmountForStoredKey(kind, table, rows, label) ==
    LET recs == ParsedRecords(kind, rows, label)
    IN \E i \in 1..Len(recs) : \E j \in 1..Len(table) :
         /\ ConflictKey(kind, table[j]) = ConflictKey(kind, recs[i])
         /\ table[j].cost_amount # recs[i].cost_amount

\* seen, and the records of a committed batch whose key no earlier record,
\* of an earlier batch or of this one, had.
FirstWrites(kind, seen, rows, label) ==
    LET recs == ParsedRecords(kind, rows, label)
    IN seen \cup
         { recs[i] : i \in { k \in 1..Len(recs) :
             /\ \A s \in seen : ConflictKey(kind, s) # ConflictKey(kind, recs[k])
             /\ \A j \in 1..(k - 1) :
                  ConflictKey(kind, recs[j]) # ConflictKey(kind, recs[k]) } }

\* The batches of RerunBatches hold the rows of 2024-03-01.  An invocation
\* on day t inserts the rows of last_month_start_of(t) .. t, so a call on
\* or after the clock can carry them only while the previous month of the
\* clock reaches back to that day.
BatchDay == Date(2024, 3, 1)

BatchInWindowFrom(clock) ==
    LET t == IF ToOrdinal(clock) < ToOrdinal(BatchDay) THEN BatchDay ELSE clock
    IN ToOrdinal(last_month_start_of(t)) <= ToOrdinal(BatchDay)

InitRerun ==
    /\ ENABLE_POSTGRES = TRUE
    /\ SUBSCRIPTION_ID = "sub-1"
    /\ db_env = TRUE
    /\ pc = "rerun"
    /\ rerun = RerunInit
    /\ loc = LocInit(Date(2024, 3, 10))
    /\ db = DbInit
    /\ exc = NONE
    /\ obs = ObsInit
    /\ raw = NoResponse
    /\ out = <<>>
    /\ arg = NONE
    /\ ret = NONE

RerunInsertCosts ==
    /\ pc = "rerun"
    /\ rerun.inserts < MaxInserts
    /\ BatchInWindowFrom(rerun.clock)
    /\ \E kind \in Kinds, label \in {"current", "last_month"}, db_fails \in BOOLEAN :
         \E rows \in RerunBatches(kind) :
           LET r == insert_costs(kind, db[TableOf(kind)], rows, label, db_fails)
           IN /\ db' = [db EXCEPT ![TableOf(kind)] = r.table]
              /\ rerun' = [rerun EXCEPT
                   !.inserts = @ + 1,
                   !.repeated = @
                      \/ (~r.raised /\ AllKeysStored(kind, db[TableOf(kind)], rows, label)),
                   !.differs = @
                      \/ (~r.raised
                            /\ OtherAmountForStoredKey(kind, db[TableOf(kind)], rows, label)),
                   !.first[kind] = IF r.raised THEN @ ELSE FirstWrites(kind, @, rows, label)]
    /\ UNCHANGED <<config, pc, loc, exc, obs, raw, out, arg, ret>>

RerunInsertLowUsage ==
    /\ pc = "rerun"
    /\ rerun.inserts < MaxInserts
    /\ \E findings \in RerunFindings, run_date \in TodaySet, db_fails \in BOOLEAN :
         LET r == insert_low_usage_resources(db.azure_low_usage_resources, findings,
                                             run_date, db_fails)
         IN /\ ToOrdinal(rerun.clock) <= ToOrdinal(run_date)
            /\ db' = [db EXCEPT !.azure_low_usage_resources = r.table]
            /\ rerun' = [rerun EXCEPT !.inserts = @ + 1, !.clock = run_date]
    /\ UNCHANGED <<config, pc, loc, exc, obs, raw, out, arg, ret>>

RerunCleanup ==
    /\ pc = "rerun"
    /\ rerun.inserts < MaxInserts
    /\ \E today \in TodaySet, db_fails \in BOOLEAN :
         /\ ToOrdinal(rerun.clock) <= ToOrdinal(today)
         /\ db' = cleanup_old_data(db, today, 90, db_fails)
         /\ rerun' = [rerun EXCEPT !.inserts = @ + 1, !.clock = today]
    /\ UNCHANGED <<config, pc, loc, exc, obs, raw, out, arg, ret>>

NextRerun ==
    \/ RerunInsertCosts
    \/ RerunInsertLowUsage
    \/ RerunCleanup

SpecRerun == InitRerun /\ [][NextRerun]_vars

NoDuplicateKeys(kind, table) ==
    \A i, j \in 1..Len(table) :
        ConflictKey(kind, table[i]) = ConflictKey(kind, table[j]) => i = j

\* C8: cost inserts are idempotent under re-run: whatever has been inserted
\* so far, each cost table holds at most one row per key (date, dimension
\* value(s), window label), and inserting a batch a second time leaves the
\* table as the first insert left it.
C8_CostInsertsIdempotent ==
    \A kind \in Kinds :
      /\ NoDuplicateKeys(kind, db[TableOf(kind)])
      /\ \A label \in {"current", "last_month"} : \A rows \in RerunBatches(kind) :
           LET once  == insert_costs(kind, db[TableOf(kind)], rows, label, FALSE).table
               twice == insert_costs(kind, once, rows, label, FALSE).table
           IN twice = once /\ NoDuplicateKeys(kind, once)

C8_Witness ==
    /\ rerun.repeated
    /\ Len(db.azure_service_costs) = 2
    /\ Len(db.azure_region_service_costs) = 1

\* The key of a stored finding.
FindingKey(rec) == <<rec.run_date, rec.resource_id, rec.metric_name>>

\* C9: a finding, identified by (run_date, resource_id, metric_name), is
\* stored only once, however often it is inserted.
C9_FindingsStoredOnce ==
    \A i, j \in 1..Len(db.azure_low_usage_resources) :
        FindingKey(db.azure_low_usage_resources[i])
          = FindingKey(db.azure_low_usage_resources[j]) => i = j

(***************************************************************************)
(* SpecNorm: process_cost_response applied to one raw response.            *)
(***************************************************************************)
MaxRows == 3

\* The raw rows a response is made of: every row length from 0 to 5, and in
\* the cells strings, numbers, None and the empty string.
RawRowSet ==
    { <<PyStr("2024-03-01"), PyStr("Storage"), PyNum(1250)>>,
      <<PyStr("2024-03-01"), PyStr("eastus"), PyStr("Storage"), PyStr("12.5")>>,
      <<PyStr("2024-03-01"), PyStr("Storage"), PyStr("n/a")>>,
      <<PyStr("2024-03-01"), PyStr("eastus"), PyStr("Storage"), PyStr("n/a")>>,
      <<PyNone, PyStr("Storage"), PyNum(300)>>,
      <<PyStr("2024-03-01"), PyNone, PyNum(0 - 500)>>,
      <<PyStr("2024-03-01"), PyStr("Storage"), PyNone>>,
      <<PyNum(20240301), PyStr("eastus"), PyStr(""), PyNone, PyNum(7)>>,
      <<PyStr("2024-03-01"), PyStr("Storage")>>,
      <<>> }

RawResponses ==
    {[has_rows |-> FALSE, rows |-> <<>>]}
      \cup {[has_rows |-> TRUE, rows |-> rs] :
              rs \in UNION {[1..n -> RawRowSet] : n \in 0..MaxRows}}

InitNorm ==
    /\ ENABLE_POSTGRES = TRUE
    /\ SUBSCRIPTION_ID = "sub-1"
    /\ db_env = TRUE
    /\ pc = "norm"
    /\ rerun = RerunInit
    /\ loc = LocInit(Date(2024, 3, 10))
    /\ db = DbInit
    /\ exc = NONE
    /\ obs = ObsInit
    /\ raw \in RawResponses
    /\ out = <<>>
    /\ arg = NONE
    /\ ret = NONE

Normalize ==
    /\ pc = "norm"
    /\ out' = process_cost_response(raw)
    /\ pc' = "normalized"
    /\ UNCHANGED <<config, rerun, loc, db, exc, obs, raw, arg, ret>>

NextNorm == Normalize

SpecNorm == InitNorm /\ [][NextNorm]_vars

\* The text of a cell, or the given default when the cell is empty.
CellText(cell, default) == IF Truthy(cell) THEN PyStrOf(cell) ELSE default

\* The CostRows one raw row stands for, by its length alone; a row whose
\* cost does not convert stands for none.
ShapeByLength(row) ==
    LET last == row[Len(row)]
    IN IF Len(row) < 3 THEN <<>>
       ELSE IF Truthy(last) /\ ~PyFloat(last).ok THEN <<>>
       ELSE LET cost == IF Truthy(last) THEN PyFloat(last).val ELSE 0
            IN IF Len(row) = 3
               THEN <<[date |-> CellText(row[1], NONE),
                       dimension |-> CellText(row[2], "Unknown"),
                       region_name |-> ABSENT, service_name |-> ABSENT,
                       cost_amount |-> cost]>>
               ELSE <<[date |-> CellText(row[1], NONE),
                       dimension |-> ABSENT,
                       region_name |-> CellText(row[2], "Unknown"),
                       service_name |-> CellText(row[3], "Unknown"),
                       cost_amount |-> cost]>>

RECURSIVE ShapesInOrder(_)
ShapesInOrder(rs) ==
    IF rs = <<>> THEN <<>> ELSE ShapeByLength(Head(rs)) \o ShapesInOrder(Tail(rs))

\* C10: the output of process_cost_response is, in input order, what each
\* raw row yields by its length alone: one single-dimension CostRow for a
\* row of length 3, one two-dimension CostRow for a row of length >= 4,
\* nothing for a row of length < 3.
C10_ShapeByRowLength ==
    pc = "normalized" => out = ShapesInOrder(raw.rows)

\* What the response stands for when every row is taken on its own: the
\* rows of each raw row that converts, in input order.
RECURSIVE RowsTakenAlone(_)
RowsTakenAlone(rs) ==
    IF rs = <<>> THEN <<>> ELSE ProcessRow(Head(rs)).rows \o RowsTakenAlone(Tail(rs))

\* C11: a row whose conversion raises is dropped on its own: every
\* well-formed row of the response, before and after the bad row, is in the
\* output of process_cost_response.
C11_BadRowDroppedAlone ==
    pc = "normalized" =>
      /\ Len(out) = Len(RowsTakenAlone(raw.rows))
      /\ \A i \in 1..Len(raw.rows) :
           LET r == ProcessRow(raw.rows[i])
           IN ~r.raised => \A k \in 1..Len(r.rows) : \E j \in 1..Len(out) : out[j] = r.rows[k]

\* C12: no CostRow in the output of process_cost_response has an absent
\* date, so a raw row without a date adds nothing to the total summed over
\* the output.
C12_NoRowWithoutDate ==
    pc = "normalized" =>
      /\ \A i \in 1..Len(out) : out[i].date # NONE
      /\ SumCost(out) = SumCost(SelectSeq(out, LAMBDA r : r.date # NONE))

\* C13: every CostRow in the output of process_cost_response has
\* cost_amount >= 0.
C13_CostNonNegative ==
    pc = "normalized" => \A i \in 1..Len(out) : out[i].cost_amount >= 0

(***************************************************************************)
(* SpecClassify: get_comprehensive_low_usage_resources applied to one      *)
(* listing of resources and the metric responses of the monitor service.   *)
(***************************************************************************)
MaxResources == 2

\* The resources of the account: one of an unlisted type (default metrics)
\* and two of listed types.
VmB ==
    [id |-> "/subscriptions/s/resourceGroups/rg1/providers/p/r2", name |-> "r2",
     type |-> "Microsoft.Compute/virtualMachines", location |-> "westus"]

SiteC ==
    [id |-> "/subscriptions/s/resourceGroups/rg1/providers/p/r3", name |-> "r3",
     type |-> "Microsoft.Web/sites", location |-> "eastus"]

ResourcePool == {Widget, VmB, SiteC}

ListingOrder == <<VmB, Widget, SiteC>>

\* The resources at the chosen positions of ListingOrder, in that order.
RECURSIVE Listed(_, _)
Listed(chosen, i) ==
    IF i > Len(ListingOrder) THEN <<>>
    ELSE (IF i \in chosen THEN <<ListingOrder[i]>> ELSE <<>>) \o Listed(chosen, i + 1)

\* The listings: up to MaxResources resources of the account, and the
\* listing that fails.
ClassifyListings ==
    {[items |-> <<>>, error_at |-> 1]}
      \cup {[items |-> Listed(chosen, 1), error_at |-> 0] :
              chosen \in {c \in SUBSET (1..Len(ListingOrder)) : Cardinality(c) <= MaxResources}}

\* What the monitor service may answer to one query whose threshold is th:
\* a failure, a series of one null sample, and one sample equal to 0, just
\* below th, or equal to th.
ResponseKinds == {"error", "null", "zero", "below", "at"}

ResponseOf(kind, th) ==
    CASE kind = "error" -> [error |-> TRUE,  data |-> <<>>]
      [] kind = "null"  -> [error |-> FALSE, data |-> << [null |-> TRUE, w |-> 0, f |-> 0] >>]
      [] kind = "zero"  -> [error |-> FALSE, data |-> << [null |-> FALSE, w |-> 0, f |-> 0] >>]
      [] kind = "below" -> [error |-> FALSE, data |-> << [null |-> FALSE, w |-> th - 1, f |-> 999] >>]
      [] kind = "at"    -> [error |-> FALSE, data |-> << [null |-> FALSE, w |-> th, f |-> 0] >>]

\* The metric configurations the classifier takes for a resource.
ConfigsOf(resource) ==
    FirstN(get_primary_metrics_for_service(resource.type), MAX_METRICS_PER_RESOURCE)

ThresholdOfPair(listing, pair) ==
    LET r == CHOOSE r \in ResourcePool : r.id = pair[1]
        c == ConfigsOf(r)
    IN c[CHOOSE i \in 1..Len(c) : c[i].metric = pair[2]].threshold

ClassifyOracles(listing) ==
    { [p \in PairSet(listing) |-> ResponseOf(k[p], ThresholdOfPair(listing, p))] :
        k \in [PairSet(listing) -> ResponseKinds] }

InitClassify ==
    /\ ENABLE_POSTGRES = TRUE
    /\ SUBSCRIPTION_ID = "sub-1"
    /\ db_env = TRUE
    /\ pc = "classify"
    /\ rerun = RerunInit
    /\ loc = LocInit(Date(2024, 3, 10))
    /\ db = DbInit
    /\ exc = NONE
    /\ obs = ObsInit
    /\ raw = NoResponse
    /\ out = <<>>
    /\ \E listing \in ClassifyListings : \E oracle \in ClassifyOracles(listing) :
         arg = [listing |-> listing, oracle |-> oracle]
    /\ ret = NONE

\* One call: the findings returned and the metric queries issued, in order.
Classify ==
    /\ pc = "classify"
    /\ ret' = [findings |-> get_comprehensive_low_usage_resources(arg.listing, arg.oracle),
               queried  |-> QueriedPairsFrom(get_all_resources(arg.listing).resources, 1)]
    /\ pc' = "classified"
    /\ UNCHANGED <<config, rerun, loc, db, exc, obs, raw, out, arg>>

NextClassify == Classify

SpecClassify == InitClassify /\ [][NextClassify]_vars

\* The findings returned for a (resource, metric) pair.
FindingsFor(id, metric) ==
    {j \in 1..Len(ret.findings) :
        ret.findings[j].resource_id = id /\ ret.findings[j].metric = metric}

\* The number of metric configurations evaluated for the resources listed.
RECURSIVE EvaluatedCount(_)
EvaluatedCount(items) ==
    IF items = <<>> THEN 0 ELSE Len(ConfigsOf(Head(items))) + EvaluatedCount(Tail(items))

\* C14: for every resource and every MetricSpec evaluated for it the
\* classifier emits exactly one finding when the fetcher returned a reading
\* and reading < threshold, and none when the reading is absent or
\* reading >= threshold; it emits nothing else.
C14_FindingIffReadingBelowThreshold ==
    pc = "classified" =>
      /\ \A i \in 1..Len(arg.listing.items) :
           LET r == arg.listing.items[i]
           IN \A k \in 1..Len(ConfigsOf(r)) :
                LET c       == ConfigsOf(r)[k]
                    reading == get_metric_statistics(arg.oracle[<<r.id, c.metric>>], c.stat)
                    low     == reading.some /\ ReadingLess(reading.val, Reading(c.threshold, 0))
                IN Cardinality(FindingsFor(r.id, c.metric)) = IF low THEN 1 ELSE 0
      /\ \A j \in 1..Len(ret.findings) :
           \E i \in 1..Len(arg.listing.items) :
             /\ arg.listing.items[i].id = ret.findings[j].resource_id
             /\ \E k \in 1..Len(ConfigsOf(arg.listing.items[i])) :
                  ConfigsOf(arg.listing.items[i])[k].metric = ret.findings[j].metric

C14_Witness ==
    /\ pc = "classified"
    /\ arg.listing.items = <<VmB>>
    /\ arg.oracle[<<VmB.id, "Percentage CPU">>] = ResponseOf("zero", 10)
    /\ arg.oracle[<<VmB.id, "Network In">>] = ResponseOf("at", 1000000)
    /\ arg.oracle[<<VmB.id, "Disk Read Bytes">>] = ResponseOf("null", 1000000)
    /\ Len(ret.findings) = 1
    /\ ret.findings[1].metric = "Percentage CPU"

\* The positions at which a pair was queried.
QueriesOf(id, metric) ==
    {j \in 1..Len(ret.queried) : ret.queried[j] = <<id, metric>>}

\* C20: within one classifier invocation the metric query of every
\* (resource, metric) pair, for the first min(5, length) MetricSpecs of the
\* resource's type, is issued exactly once, failed queries included; a
\* failed pair is skipped, and the pairs after it, of the same resource and
\* of the resources after it, are evaluated all the same.
C20_EachPairOnceFailuresIsolated ==
    pc = "classified" =>
      /\ Len(ret.queried) = EvaluatedCount(arg.listing.items)
      /\ \A i \in 1..Len(arg.listing.items) :
           LET r == arg.listing.items[i]
               n == Len(get_primary_metrics_for_service(r.type))
           IN /\ Len(ConfigsOf(r)) = IF n < 5 THEN n ELSE 5
              /\ \A k \in 1..Len(ConfigsOf(r)) :
                   LET c == ConfigsOf(r)[k]
                   IN /\ Cardinality(QueriesOf(r.id, c.metric)) = 1
                      /\ arg.oracle[<<r.id, c.metric>>].error => FindingsFor(r.id, c.metric) = {}
                      /\ arg.oracle[<<r.id, c.metric>>] \in
                            {ResponseOf("zero", c.threshold), ResponseOf("below", c.threshold)}
                           => FindingsFor(r.id, c.metric) # {}

C20_Witness ==
    /\ pc = "classified"
    /\ arg.listing.items = <<VmB, Widget>>
    /\ arg.oracle[<<VmB.id, "Percentage CPU">>].error
    /\ arg.oracle[<<VmB.id, "Network In">>] = ResponseOf("below", 1000000)
    /\ arg.oracle[<<Widget.id, "Requests">>].error
    /\ arg.oracle[<<Widget.id, "Errors">>] = ResponseOf("zero", 1)
    /\ Len(ret.queried) = 5
    /\ FindingsFor(VmB.id, "Network In") # {}
    /\ FindingsFor(Widget.id, "Errors") # {}

(***************************************************************************)
(* SpecCalls: get_all_resources, the window computation of main,           *)
(* get_metric_statistics and get_primary_metrics_for_service, each         *)
(* applied to one input.                                                   *)
(***************************************************************************)
MaxListing == 102
MaxSamples == 3

\* A descriptor the listing yields without an id.
NoIdItem == [id |-> NONE, name |-> "r0", type |-> "Contoso.Custom/widgets", location |-> "eastus"]

\* Listings of up to MaxListing descriptors, some without an id, and the
\* position at which pulling the next descriptor raises (0: nowhere).
DiscoverListings ==
    { [items |-> [i \in 1..n |-> IF i \in noid THEN NoIdItem ELSE Widget], error_at |-> e] :
        n \in {0, 1, 2, 99, 100, 101, MaxListing}, noid \in {{}, {1}, {100}, {1, 50}}, e \in {0, 1, 100, 101, 102} }

\* The years from which run dates are taken: leap and common years, and the
\* century years 1900 and 2000.
WindowYears == {1900, 2000, 2023, 2024}

RunDates ==
    { Date(y, m, d) : y \in WindowYears, m \in 1..12, d \in 1..31 }
      \cap { dt \in [year : WindowYears, month : 1..12, day : 1..31] :
                dt.day <= DaysInMonth(dt.year, dt.month) }

\* The samples of a series, and the series of up to MaxSamples samples.
SampleSet ==
    { [null |-> TRUE,  w |-> 0,  f |-> 0],
      [null |-> FALSE, w |-> 0,  f |-> 0],
      [null |-> FALSE, w |-> 0,  f |-> 1],
      [null |-> FALSE, w |-> 1,  f |-> 500],
      [null |-> FALSE, w |-> 10, f |-> 0] }

Aggregations == {"Average", "Sum", "Maximum", "Minimum", "Total"}

SeriesSet == UNION {[1..n -> SampleSet] : n \in 0..MaxSamples}

\* Resource-type strings: the keys of the table, and strings that are not
\* keys (other case, a prefix, a suffix, a child type, unknown, empty).
ListedTypes ==
    {"Microsoft.Compute/virtualMachines", "Microsoft.DBforPostgreSQL/servers",
     "Microsoft.Storage/storageAccounts", "Microsoft.Web/sites",
     "Microsoft.ContainerService/managedClusters", "Microsoft.Network/loadBalancers"}

TypeStrings ==
    ListedTypes \cup
    {"", "Contoso.Custom/widgets", "microsoft.compute/virtualmachines", "Microsoft.Compute",
     "virtualMachines", "Microsoft.Compute/virtualMachines/extensions",
     "Microsoft.Sql/servers", "Microsoft.Web/sites/"}

CallArgs ==
    {[fn |-> "get_all_resources", listing |-> l] : l \in DiscoverListings}
      \cup {[fn |-> "windows", today |-> d] : d \in RunDates}
      \cup {[fn |-> "current_metric_window", today |-> d] : d \in RunDates}
      \cup {[fn |-> "get_metric_statistics", response |-> [error |-> e, data |-> data],
             aggregation |-> a] : e \in BOOLEAN, data \in SeriesSet, a \in Aggregations}
      \cup {[fn |-> "get_primary_metrics_for_service", resource_type |-> t] : t \in TypeStrings}

InitCalls ==
    /\ ENABLE_POSTGRES = TRUE
    /\ SUBSCRIPTION_ID = "sub-1"
    /\ db_env = TRUE
    /\ pc = "call"
    /\ rerun = RerunInit
    /\ loc = LocInit(Date(2024, 3, 10))
    /\ db = DbInit
    /\ exc = NONE
    /\ obs = ObsInit
    /\ raw = NoResponse
    /\ out = <<>>
    /\ arg \in CallArgs
    /\ ret = NONE

Returned(fn) == pc = "returned" /\ arg.fn = fn

CallGetAllResources ==
    /\ pc = "call"
    /\ arg.fn = "get_all_resources"
    /\ ret' = PullStart
    /\ pc' = "pulling"
    /\ UNCHANGED <<config, rerun, loc, db, exc, obs, raw, out, arg>>

\* One turn of the loop of get_all_resources.
PullResource ==
    /\ pc = "pulling"
    /\ ret' = PullStep(arg.listing, ret)
    /\ pc' = IF ret'.done THEN "returned" ELSE "pulling"
    /\ UNCHANGED <<config, rerun, loc, db, exc, obs, raw, out, arg>>

CallWindows ==
    /\ pc = "call"
    /\ arg.fn = "windows"
    /\ ret' = [start_date       |-> start_date_of(arg.today),
               end_date         |-> arg.today,
               last_month_start |-> last_month_start_of(arg.today),
               last_month_end   |-> last_month_end_of(arg.today)]
    /\ pc' = "returned"
    /\ UNCHANGED <<config, rerun, loc, db, exc, obs, raw, out, arg>>

CallGetMetricStatistics ==
    /\ pc = "call"
    /\ arg.fn = "get_metric_statistics"
    /\ ret' = get_metric_statistics(arg.response, arg.aggregation)
    /\ pc' = "returned"
    /\ UNCHANGED <<config, rerun, loc, db, exc, obs, raw, out, arg>>

CallGetPrimaryMetrics ==
    /\ pc = "call"
    /\ arg.fn = "get_primary_metrics_for_service"
    /\ ret' = get_primary_metrics_for_service(arg.resource_type)
    /\ pc' = "returned"
    /\ UNCHANGED <<config, rerun, loc, db, exc, obs, raw, out, arg>>

(***************************************************************************)
(* The window the classifier hands to get_metric_statistics.               *)
(***************************************************************************)
\* datetime.datetime.combine(d, datetime.time.min): midnight at the start
\* of day d.  An instant is a day and the seconds into it.
datetime_combine_min(d) == [date |-> d, seconds |-> 0]

InstantBefore(a, b) ==
    \/ ToOrdinal(a.date) < ToOrdinal(b.date)
    \/ (ToOrdinal(a.date) = ToOrdinal(b.date) /\ a.seconds < b.seconds)

\* Lines 313-314 of get_comprehensive_low_usage_resources(…, start, end):
\* the start_dt and end_dt passed to every get_metric_statistics call.
metric_window(start, end) ==
    [start_dt |-> datetime_combine_min(start), end_dt |-> datetime_combine_min(end)]

\* Lines 393-396 and 450-453 of main: the classifier is called for the
\* current window with start_date and end_date = today.
current_metric_window(today) == metric_window(start_date_of(today), today)

CallCurrentMetricWindow ==
    /\ pc = "call"
    /\ arg.fn = "current_metric_window"
    /\ ret' = current_metric_window(arg.today)
    /\ pc' = "returned"
    /\ UNCHANGED <<config, rerun, loc, db, exc, obs, raw, out, arg>>

NextCalls ==
    \/ CallGetAllResources
    \/ PullResource
    \/ CallWindows
    \/ CallGetMetricStatistics
    \/ CallGetPrimaryMetrics
    \/ CallCurrentMetricWindow

SpecCalls == InitCalls /\ [][NextCalls]_vars

\* The descriptors with an id among the first k of the listing.
WithId(items, k) == {i \in 1..k : items[i].id # NONE}

\* C15: resource discovery returns at most 100 resources whatever the size
\* of the account, and stops eagerly: once the 100th resource has been
\* collected no further descriptor is pulled from the listing.
C15_CapReachedStopsEnumeration ==
    (arg.fn = "get_all_resources" /\ pc \in {"pulling", "returned"}) =>
      LET items == arg.listing.items
      IN /\ Len(ret.resources) <= 100
         /\ ret.pulled <= Len(items) + 1
         /\ \A k \in 1..Len(items) :
              Cardinality(WithId(items, k)) >= 100 => ret.pulled <= k
         /\ (pc = "returned" /\ ~ret.failed) =>
              Len(ret.resources) =
                IF Cardinality(WithId(items, Len(items))) <= 100
                THEN Cardinality(WithId(items, Len(items))) ELSE 100

C15_Witness ==
    /\ Returned("get_all_resources")
    /\ Len(arg.listing.items) = 102
    /\ arg.listing.items[1].id = NONE
    /\ arg.listing.error_at = 102
    /\ ~ret.failed
    /\ Len(ret.resources) = 100
    /\ ret.pulled = 101

\* The calendar month before the month of d, as <<year, month>>.
MonthBefore(d) == IF d.month = 1 THEN <<d.year - 1, 12>> ELSE <<d.year, d.month - 1>>

\* C16: for every run date the previous-month window is the full calendar
\* month before the run date's month, from its first day to its last (the
\* day before the first of the run date's month; December of the year
\* before for a run date in January), the current window is [first of the
\* run date's month, run date], and the two windows are disjoint.
C16_WindowsAreCalendarMonths ==
    Returned("windows") =>
      /\ ret.start_date = Date(arg.today.year, arg.today.month, 1)
      /\ ret.end_date = arg.today
      /\ <<ret.last_month_start.year, ret.last_month_start.month>> = MonthBefore(arg.today)
      /\ <<ret.last_month_end.year, ret.last_month_end.month>> = MonthBefore(arg.today)
      /\ ret.last_month_start.day = 1
      /\ ret.last_month_end.day \in 28..31
      /\ ToOrdinal(ret.last_month_end) + 1 = ToOrdinal(ret.start_date)
      /\ ToOrdinal(ret.last_month_start) <= ToOrdinal(ret.last_month_end)
      /\ ToOrdinal(ret.last_month_end) < ToOrdinal(ret.start_date)
      /\ ToOrdinal(ret.start_date) <= ToOrdinal(ret.end_date)
      /\ arg.today = Date(2024, 1, 15) =>
           (ret.last_month_start = Date(2023, 12, 1) /\ ret.last_month_end = Date(2023, 12, 31))
      /\ arg.today = Date(2023, 3, 10) => ret.last_month_end = Date(2023, 2, 28)
      /\ arg.today = Date(1900, 3, 1) => ret.last_month_end = Date(1900, 2, 28)
      /\ arg.today = Date(2000, 3, 31) => ret.last_month_end = Date(2000, 2, 29)

C16_Witness ==
    /\ Returned("windows")
    /\ arg.today = Date(2024, 3, 10)
    /\ ret.last_month_start = Date(2024, 2, 1)
    /\ ret.last_month_end = Date(2024, 2, 29)

\* A reading in thousandths.
Thousandths(r) == r.w * 1000 + r.f

\* The non-null samples of the series of the call, as readings.
SamplesPresent ==
    LET present == SelectSeq(arg.response.data, LAMBDA dp : ~dp.null)
    IN [i \in 1..Len(present) |-> Reading(present[i].w, present[i].f)]

RECURSIVE TotalThousandths(_)
TotalThousandths(values) ==
    IF values = <<>> THEN 0 ELSE Thousandths(Head(values)) + TotalThousandths(Tail(values))

\* C17: get_metric_statistics returns the reduction of the non-null samples
\* by the requested statistic (Average their mean, to the precision of the
\* readings; Sum their sum; Maximum and Minimum their extremum), and no
\* reading, never 0, when the request fails, the series is empty or every
\* sample is null.
C17_ReductionOfNonNullSamples ==
    Returned("get_metric_statistics") =>
      LET values == SamplesPresent
          n      == Len(values)
          total  == TotalThousandths(values)
      IN /\ (arg.response.error \/ n = 0) => ~ret.some
         /\ (~arg.response.error /\ n > 0 /\ arg.aggregation = "Average") =>
              /\ ret.some
              /\ n * Thousandths(ret.val) <= total
              /\ total < n * (Thousandths(ret.val) + 1)
         /\ (~arg.response.error /\ n > 0 /\ arg.aggregation = "Sum") =>
              (ret.some /\ Thousandths(ret.val) = total)
         /\ (~arg.response.error /\ n > 0 /\ arg.aggregation = "Maximum") =>
              /\ ret.some
              /\ \E i \in 1..n : values[i] = ret.val
              /\ \A i \in 1..n : Thousandths(values[i]) <= Thousandths(ret.val)
         /\ (~arg.response.error /\ n > 0 /\ arg.aggregation = "Minimum") =>
              /\ ret.some
              /\ \E i \in 1..n : values[i] = ret.val
              /\ \A i \in 1..n : Thousandths(values[i]) >= Thousandths(ret.val)

C17_Witness ==
    /\ Returned("get_metric_statistics")
    /\ arg.aggregation = "Average"
    /\ ~arg.response.error
    /\ arg.response.data = << [null |-> TRUE, w |-> 0, f |-> 0],
                              [null |-> FALSE, w |-> 1, f |-> 500],
                              [null |-> FALSE, w |-> 10, f |-> 0] >>
    /\ ret = Some(Reading(5, 750))

\* C18: get_primary_metrics_for_service is total: for a resource-type
\* string that is no key of the table, the empty string included, it
\* returns exactly the default list, Requests/Sum then Errors/Sum; for a
\* key it returns that type's list in table order.
C18_DefaultForUnlistedTypes ==
    Returned("get_primary_metrics_for_service") =>
      LET names == [i \in 1..Len(ret) |-> <<ret[i].metric, ret[i].stat>>]
          t     == arg.resource_type
      IN /\ t \notin ListedTypes =>
              ret = << [metric |-> "Requests", stat |-> "Sum", threshold |-> 10, unit |-> "Count"],
                       [metric |-> "Errors", stat |-> "Sum", threshold |-> 1, unit |-> "Count"] >>
         /\ t = "Microsoft.Compute/virtualMachines" =>
              names = << <<"Percentage CPU", "Average">>, <<"Network In", "Average">>,
                         <<"Disk Read Bytes", "Average">> >>
         /\ t = "Microsoft.DBforPostgreSQL/servers" =>
              names = << <<"cpu_percent", "Average">>, <<"connections_active", "Average">>,
                         <<"io_consumption_percent", "Average">> >>
         /\ t = "Microsoft.Storage/storageAccounts" =>
              names = << <<"Transactions", "Sum">>, <<"UsedCapacity", "Average">> >>
         /\ t = "Microsoft.Web/sites" =>
              names = << <<"HttpRequests", "Sum">>, <<"AverageResponseTime", "Average">> >>
         /\ t = "Microsoft.ContainerService/managedClusters" =>
              names = << <<"cpuUsageNanoCores", "Average">>, <<"memoryWorkingSetBytes", "Average">> >>
         /\ t = "Microsoft.Network/loadBalancers" =>
              names = << <<"ByteCount", "Sum">>, <<"PacketCount", "Sum">> >>

C18_Witness ==
    /\ Returned("get_primary_metrics_for_service")
    /\ arg.resource_type = ""
    /\ Len(ret) = 2
    /\ ret[1].metric = "Requests"
    /\ ret[2].metric = "Errors"

(***************************************************************************)
(* The order of the phases of one invocation (Spec).                       *)
(***************************************************************************)
CurrentInsertSteps ==
    {"insert_service", "insert_region", "insert_region_service", "insert_low_usage"}

LastMonthInsertSteps ==
    {"insert_last_service", "insert_last_region", "insert_last_region_service",
     "insert_last_low_usage"}

InsertSteps == CurrentInsertSteps \cup LastMonthInsertSteps \cup {"insert_run"}

\* The positions main is at once its first insert has been issued.
AfterFirstInsert == (InsertSteps \ {"insert_service"}) \cup {"classify_last"}

\* C19 as stated: no insert is issued before both windows have been
\* classified and the totals computed, and no classification runs after
\* the first insert.
C19_ClassifiedBeforePersisted ==
    /\ [](pc \in InsertSteps =>
            /\ obs.classified.current = 1
            /\ obs.classified.last_month = 1
            /\ loc.current_total_cost = SumCost(loc.cost_data_service))
    /\ [][(pc \in AfterFirstInsert) => (obs'.classified = obs.classified)]_vars

\* The rank of a position in the text of main.
PhaseRank(p) ==
    CASE p = "start" -> 0
      [] p \in {FetchSteps[i] : i \in 1..Len(FetchSteps)} -> 1
      [] p = "classify" -> 2
      [] p = "totals" -> 3
      [] p = "connect" -> 4
      [] p \in CurrentInsertSteps -> 5
      [] p = "classify_last" -> 6
      [] p \in LastMonthInsertSteps -> 7
      [] p = "insert_run" -> 8
      [] p = "report" -> 9
      [] p = "done" -> 10
      [] OTHER -> 11

\* C19 (amended): a run goes through windows, the six cost queries, the
\* classification of the current window, the totals, and then persistence;
\* no insert is issued before the current window has been classified and
\* the totals computed.  Inside persistence the four inserts of the current
\* window come first, then the classification of the previous month, then
\* the four inserts of the previous month and the run summary: the
\* previous month is classified after the first insert, and before every
\* insert of its own window.
C19_PhasesInCodeOrder ==
    /\ [](/\ pc = "classify" => (obs.provider_calls = 6 /\ obs.classified.current = 0)
          /\ pc \in {"connect"} \cup InsertSteps \cup {"classify_last"} =>
               /\ obs.classified.current = 1
               /\ loc.current_total_cost = SumCost(loc.cost_data_service)
               /\ loc.last_total_cost = SumCost(loc.last_month_cost_data_service)
          /\ pc \in {"start", "classify", "totals", "connect"}
                \cup {FetchSteps[i] : i \in 1..Len(FetchSteps)}
               => (obs.committed = {} /\ db = DbInit)
          /\ pc \in CurrentInsertSteps \cup {"classify_last"} => obs.classified.last_month = 0
          /\ pc \in LastMonthInsertSteps \cup {"insert_run"} =>
               (obs.classified.last_month = 1 /\ obs.committed \cap LastMonthInsertSteps
                                                   \subseteq StepsBefore(pc))
          /\ obs.committed \cap (LastMonthInsertSteps \cup {"insert_run"}) # {} =>
               obs.classified.last_month = 1)
    /\ [][/\ PhaseRank(pc') >= PhaseRank(pc)
          /\ obs'.classified.current # obs.classified.current => pc = "classify"
          /\ obs'.classified.last_month # obs.classified.last_month =>
               (pc = "classify_last" /\ pc' = "insert_last_service")
          /\ pc' = "classify_last" => pc = "insert_low_usage"]_vars

C19_Witness ==
    /\ pc = "insert_last_service"
    /\ obs.classified.current = 1
    /\ obs.classified.last_month = 1
    /\ "insert_service" \in obs.committed
    /\ "insert_low_usage" \in obs.committed
    /\ loc.current_total_cost > 0

\* C21: the window over which the classifier fetches the metrics of the
\* current month-to-date is never empty and includes today: the start
\* instant is strictly before the end instant, and the end instant is after
\* the start of the run date.
C21_MetricWindowIncludesToday ==
    Returned("current_metric_window") =>
      /\ InstantBefore(ret.start_dt, ret.end_dt)
      /\ InstantBefore([date |-> arg.today, seconds |-> 0], ret.end_dt)

\* C22: every finding the classifier emits records an average_usage that is
\* strictly below its recorded threshold: the reading rounded to 2 decimals,
\* as the finding holds it and as insert_low_usage_resources stores it, is
\* below the threshold for every reading that passed reading < threshold.
C22_StoredUsageBelowThreshold ==
    pc = "classified" =>
      LET records == LowUsageRecords(ret.findings, loc.today)
      IN \A j \in 1..Len(ret.findings) :
           /\ ReadingLess(ret.findings[j].average_usage,
                          Reading(ret.findings[j].threshold, 0))
           /\ ReadingLess(records[j].average_usage,
                          Reading(records[j].threshold_value, 0))

\* C23: cost inserts are first-write-wins: whatever helper calls the
\* invocations have made, later ones with other amounts for stored keys
\* included, every row of a cost table is the record that was the first to
\* be committed for its key (date, dimension value(s), window label), with
\* the amount of that first insert.
C23_FirstWriteWins ==
    \A kind \in Kinds :
      \A i \in 1..Len(db[TableOf(kind)]) :
        /\ db[TableOf(kind)][i] \in rerun.first[kind]
        /\ \A s \in rerun.first[kind] :
             ConflictKey(kind, s) = ConflictKey(kind, db[TableOf(kind)][i])
               => s.cost_amount = db[TableOf(kind)][i].cost_amount

C23_Witness ==
    /\ rerun.differs
    /\ db.azure_region_costs = <<>>
    /\ db.azure_region_service_costs = <<>>
    /\ db.azure_service_costs =
         insert_costs("service", <<>>,
             process_cost_response(
                 get_cost_data(FALSE, ProviderRows("service", BatchDay)).response),
             "current", FALSE).table

=============================================================================
